---------------------------- MODULE Spec2Model ----------------------------
(***************************************************************************)
(* A model of itsdangerous: the signing engine (Signer, TimestampSigner)   *)
(* and the serializer stack built on it (Serializer, TimedSerializer, the  *)
(* URL-safe variants and the JSON Web Signature serializer).               *)
(*                                                                         *)
(* Byte strings are sequences of integers 0..255 (ASCII codes).  The       *)
(* library's own code (splitting at the separator, base64 framing, key     *)
(* derivation, the key ring, the fallback loop, the error taxonomy) is     *)
(* modelled step by step.  The standard library's primitives are stood in  *)
(* for by small deterministic functions of the same shape: hashlib by a    *)
(* polynomial digest of fixed size, hmac by that digest over the padded    *)
(* key and the message, json by a table of objects and their texts, zlib   *)
(* by a run-length coder with a header and a checksum.                     *)
(***************************************************************************)
EXTENDS Integers, Sequences, FiniteSets, TLC

VARIABLES
    endpoints, \* the Signer and Serializer objects constructed, in order
    now,       \* the reading of time.time(), in seconds
    wire,      \* the tokens an observer of the channel has seen
    inbox,     \* the byte string in flight to the next unsign/loads call
    signed,    \* history: the sign/dumps calls made so far, each with the
               \* bytes handed to the signer (value), the object dumped and
               \* the header fields given to a JSON Web Signature dumps
    res,       \* the last unsign/loads/loads_unsafe call and its outcome
    calls      \* the call each thread is in: its position in the method's
               \* code, its arguments and its local names

vars == <<endpoints, now, wire, inbox, signed, res, calls>>

---------------------------------------------------------------------------
(* Byte strings                                                            *)

\* Python's None where a byte string is expected (no byte is negative).
None == <<-1>>

\* 2011/01/01 in UTC
EPOCH == 1293840000

\* Python evaluates an expression once, when it binds the value to a name:
\* Bind(e, F) is F applied to the value of e
Bind(e, F(_)) == CHOOSE r \in {F(v) : v \in {e}} : TRUE

RECURSIVE Repeat(_, _)
Repeat(b, n) == IF n <= 0 THEN <<>> ELSE <<b>> \o Repeat(b, n - 1)

\* s[i..j], empty when j < i
Slice(s, i, j) == IF j < i THEN <<>> ELSE SubSeq(s, i, j)

\* whether sub occurs in s at index i
OccursAt(sub, s, i) ==
    /\ i >= 1
    /\ i + Len(sub) - 1 <= Len(s)
    /\ \A k \in 1..Len(sub) : s[i + k - 1] = sub[k]

\* `sub in s` on byte strings
Contains(sub, s) ==
    \E w \in {sub}, v \in {s} : \E i \in 1..(Len(v) + 1) : OccursAt(w, v, i)

\* the index of the last occurrence of sub in s (0: none)
LastIndex(sub, s) ==
    Bind({i \in 1..(Len(s) + 1) : OccursAt(sub, s, i)}, LAMBDA hits :
         IF hits = {} THEN 0 ELSE CHOOSE i \in hits : \A j \in hits : j <= i)

\* the index of the first occurrence of sub in s (0: none)
FirstIndex(sub, s) ==
    Bind({i \in 1..(Len(s) + 1) : OccursAt(sub, s, i)}, LAMBDA hits :
         IF hits = {} THEN 0 ELSE CHOOSE i \in hits : \A j \in hits : i <= j)

\* a split at the first occurrence where the last is meant
SplitAtFirst(s, sep) ==
    Bind(FirstIndex(sep, s), LAMBDA i :
         <<Slice(s, 1, i - 1), Slice(s, i + Len(sep), Len(s))>>)

\* s.rsplit(sep, 1) when sep occurs in s: <<before, after>>
RSplit(s, sep) ==
    Bind(LastIndex(sep, s), LAMBDA i :
         <<Slice(s, 1, i - 1), Slice(s, i + Len(sep), Len(s))>>)

\* s.split(sep, 1) when sep occurs in s: <<before, after>>
Split(s, sep) ==
    Bind(FirstIndex(sep, s), LAMBDA i :
         <<Slice(s, 1, i - 1), Slice(s, i + Len(sep), Len(s))>>)

---------------------------------------------------------------------------
(* URL-safe base64 (base64.urlsafe_b64encode / urlsafe_b64decode)          *)

\* "A".."Z", "a".."z", "0".."9", "-", "_"
B64Chars ==
    [i \in 1..26 |-> 64 + i] \o [i \in 1..26 |-> 96 + i] \o
    [i \in 1..10 |-> 47 + i] \o <<45, 95>>

\* "="
B64Pad == 61

\* the 6-bit value of a character, 64 for a character outside the alphabet;
\* urlsafe_b64decode maps "-" and "_" to "+" and "/" and then decodes with
\* the standard alphabet, so "+" and "/" decode as well
B64Val(c) ==
    IF c >= 65 /\ c <= 90 THEN c - 65
    ELSE IF c >= 97 /\ c <= 122 THEN c - 71
    ELSE IF c >= 48 /\ c <= 57 THEN c + 4
    ELSE IF c = 45 \/ c = 43 THEN 62
    ELSE IF c = 95 \/ c = 47 THEN 63
    ELSE 64

RECURSIVE B64EncodeFrom(_, _)
B64EncodeFrom(s, i) ==
    IF i > Len(s) THEN <<>>
    ELSE LET n  == Len(s) - i + 1
             b1 == s[i]
             b2 == IF n >= 2 THEN s[i + 1] ELSE 0
             b3 == IF n >= 3 THEN s[i + 2] ELSE 0
             q  == << B64Chars[(b1 \div 4) + 1],
                      B64Chars[((b1 % 4) * 16 + (b2 \div 16)) + 1],
                      B64Chars[((b2 % 16) * 4 + (b3 \div 64)) + 1],
                      B64Chars[(b3 % 64) + 1] >>
         IN  IF n >= 3 THEN q \o B64EncodeFrom(s, i + 3)
             ELSE SubSeq(q, 1, n + 1)

\* an encoding that keeps the padding
EncodeWithPadding(string) ==
    Bind(string, LAMBDA s :
         B64EncodeFrom(s, 1) \o Repeat(B64Pad, (3 - (Len(s) % 3)) % 3))

\* base64.urlsafe_b64encode(string).strip('='): the padding is left out
base64_encode(string) == Bind(string, LAMBDA s : B64EncodeFrom(s, 1))

\* whether the four characters of s from i on are all of the alphabet
FullQuad(s, i) ==
    /\ i + 3 <= Len(s)
    /\ \A k \in 0..3 : s[i + k] # B64Pad /\ B64Val(s[i + k]) < 64

\* the three bytes of a quad of 6-bit values
QuadBytes(v1, v2, v3, v4) ==
    <<v1 * 4 + (v2 \div 16), (v2 % 16) * 16 + (v3 \div 4), (v3 % 4) * 64 + v4>>

\* binascii.a2b_base64 in its default (lenient) mode: characters outside the
\* alphabet are skipped, a pad sequence that completes a quad ends the input,
\* and a quad left open at the end is an error ("Incorrect padding").  A
\* quad of four characters of the alphabet is taken in one step, which is
\* the four steps character by character.
RECURSIVE A2B(_, _, _, _, _, _)
A2B(s, i, quad_pos, leftchar, pads, out) ==
    IF i > Len(s)
    THEN [ok |-> quad_pos = 0, data |-> out]
    ELSE IF quad_pos = 0 /\ Len(out) >= 0 /\ FullQuad(s, i)
    THEN A2B(s, i + 4, 0, 0, 0,
             out \o QuadBytes(B64Val(s[i]), B64Val(s[i + 1]),
                              B64Val(s[i + 2]), B64Val(s[i + 3])))
    ELSE IF s[i] = B64Pad
    THEN IF quad_pos >= 2 /\ quad_pos + pads + 1 >= 4
         THEN [ok |-> TRUE, data |-> out]
         ELSE A2B(s, i + 1, quad_pos, leftchar,
                  IF quad_pos >= 2 THEN pads + 1 ELSE pads, out)
    ELSE LET v == B64Val(s[i])
         IN  IF v >= 64 THEN A2B(s, i + 1, quad_pos, leftchar, pads, out)
             ELSE IF quad_pos = 0 THEN A2B(s, i + 1, 1, v, 0, out)
             ELSE IF quad_pos = 1
             THEN A2B(s, i + 1, 2, v % 16, 0,
                      Append(out, leftchar * 4 + (v \div 16)))
             ELSE IF quad_pos = 2
             THEN A2B(s, i + 1, 3, v % 4, 0,
                      Append(out, leftchar * 16 + (v \div 4)))
             ELSE A2B(s, i + 1, 0, 0, 0, Append(out, leftchar * 64 + v))

\* base64.urlsafe_b64decode(string + '=' * (-len(string) % 4));
\* ok = FALSE stands for the exception the decoder raises
base64_decode(string) ==
    Bind(string, LAMBDA s :
         Bind(s \o Repeat(B64Pad, (4 - (Len(s) % 4)) % 4), LAMBDA padded :
              A2B(padded, 1, 0, 0, 0, <<>>)))

---------------------------------------------------------------------------
(* hashlib and hmac (stand-ins of the same shape)                          *)

\* digest_size, scaled down: md5 16, sha1 20, sha256 32, sha384 48 and
\* sha512 64 bytes become 1, 2, 5, 6 and 7.  The order of the sizes and each
\* size modulo 3, which decides how many bits of the last base64 character
\* carry signature, are those of the real digests.
DigestSize(dm) ==
    CASE dm = "md5" -> 1
      [] dm = "sha1" -> 2
      [] dm = "sha256" -> 5
      [] dm = "sha384" -> 6
      [] dm = "sha512" -> 7

\* block_size, scaled down: 64 bytes for md5, sha1 and sha256, 128 for
\* sha384 and sha512
BlockSize(dm) == IF dm \in {"sha384", "sha512"} THEN 16 ELSE 8

\* each digest method evaluates at its own points
PointBase(dm) ==
    CASE dm = "md5" -> 10
      [] dm = "sha1" -> 20
      [] dm = "sha256" -> 30
      [] dm = "sha384" -> 50
      [] dm = "sha512" -> 70

\* one step of Horner's rule modulo 251
PolyStep(acc, p, b) == (acc * p + b + 1) % 251

\* Horner's rule from byte j on, four bytes at a time while there are four;
\* acc stays in 0..250
RECURSIVE PolyFrom(_, _, _, _)
PolyFrom(x, j, p, acc) ==
    IF j > Len(x) \/ acc < 0 THEN acc
    ELSE IF j + 3 <= Len(x)
    THEN PolyFrom(x, j + 4, p,
                  PolyStep(PolyStep(PolyStep(PolyStep(acc, p, x[j]), p, x[j + 1]),
                                    p, x[j + 2]), p, x[j + 3]))
    ELSE PolyFrom(x, j + 1, p, PolyStep(acc, p, x[j]))

\* digest_method(x).digest(): byte i is the input, read as a polynomial,
\* evaluated at the i-th point modulo 251.  Two inputs of the same length
\* that differ in one byte differ in every digest byte.
Digest(dm, x) ==
    Bind(x, LAMBDA v :
         SubSeq([i \in 1..DigestSize(dm) |->
                    PolyFrom(v, 1, PointBase(dm) + i, Len(v) % 251)],
                1, DigestSize(dm)))

\* hmac.new(key, msg, digestmod).digest(): the key is hashed when longer than
\* a block and padded with zero bytes to a block, as in HMAC
HMAC(dm, key, msg) ==
    Bind(key, LAMBDA k :
         Bind(IF Len(k) > BlockSize(dm) THEN Digest(dm, k) ELSE k, LAMBDA k0 :
              Digest(dm, k0 \o Repeat(0, BlockSize(dm) - Len(k0)) \o <<92>> \o msg)))

---------------------------------------------------------------------------
(* Errors and results                                                      *)

\* What a call hands back: kind "ok" with its result, or the class of the
\* exception raised with its attributes.
\*   value  the bytes returned (unsign)         obj    the object returned (loads)
\*   payload, date_signed, header               the exception's attributes
\*   date_kind  "none", "int" (a bare timestamp) or "datetime"
\*   valid  loads_unsafe's first component, constant_time_compare's result
\*   steps  the iterations a comparison's loop made
\*   number the integer a conversion between integers and bytes took or
\*          gave
\* and what the call did on its way:
\*   decoded   the bytes load_payload was called with (None: it was not)
\*   inflated  zlib.decompress was called
\*   peeked    the timestamp of a value whose signature had failed was
\*             base64-decoded
NoOut ==
    [kind |-> "ok", msg |-> "", value |-> None, obj |-> 0, payload |-> None,
     date_signed |-> 0, date_kind |-> "none", header |-> 0, valid |-> FALSE,
     steps |-> 0, decoded |-> None, inflated |-> FALSE, peeked |-> FALSE,
     number |-> 0]

\* the outcome of a load_payload that was called with payload
Decoding(payload, out) == [out EXCEPT !.decoded = payload]

Returns(value) == [NoOut EXCEPT !.value = value]

BadSignature(msg, payload) ==
    [NoOut EXCEPT !.kind = "BadSignature", !.msg = msg, !.payload = payload]

\* the subclass relation of the exception classes
IsA(kind, class) ==
    \/ kind = class
    \/ class = "BadData"
          /\ kind \in {"BadSignature", "BadTimeSignature", "SignatureExpired",
                       "BadHeader", "BadPayload"}
    \/ class = "BadSignature"
          /\ kind \in {"BadTimeSignature", "SignatureExpired", "BadHeader"}
    \/ class = "BadTimeSignature" /\ kind = "SignatureExpired"

---------------------------------------------------------------------------
(* signer.py: SigningAlgorithm, Signer                                     *)

\* "signer"
SignerWord == <<115, 105, 103, 110, 101, 114>>

\* "itsdangerous.Signer"
DefaultSignerSalt ==
    <<105, 116, 115, 100, 97, 110, 103, 101, 114, 111, 117, 115, 46,
      83, 105, 103, 110, 101, 114>>

\* "."
Dot == <<46>>

\* string.ascii_letters + string.digits + "-_="
Base64Alphabet ==
    [i \in 1..26 |-> 96 + i] \o [i \in 1..26 |-> 64 + i] \o
    [i \in 1..10 |-> 47 + i] \o <<45, 95, 61>>

\* SigningAlgorithm.get_signature: NoneAlgorithm, HMACAlgorithm
Algorithm_get_signature(alg, key, value) ==
    IF alg.kind = "none" THEN <<>> ELSE HMAC(alg.digest, key, value)

\* a comparison of the lengths only
CompareLengths(alg, key, value, sig) ==
    Len(sig) = Len(Algorithm_get_signature(alg, key, value))

\* SigningAlgorithm.verify_signature: hmac.compare_digest(sig, expected)
Algorithm_verify_signature(alg, key, value, sig) ==
    sig = Algorithm_get_signature(alg, key, value)

\* HMACAlgorithm(digest_method)
HMACAlgorithm(dm) == [kind |-> "hmac", digest |-> dm]

\* NoneAlgorithm()
NoneAlgorithm == [kind |-> "none", digest |-> ""]

\* algorithm=None in a constructor call
UnsetAlgorithm == [kind |-> "unset", digest |-> ""]

\* Signer.__init__: "" stands for an argument left at None.  ok = FALSE is
\* the ValueError raised for a separator found in the base64 alphabet.
Signer(secret_keys, salt, sep, key_derivation, digest_method, algorithm) ==
    LET dm == IF digest_method = "" THEN "sha1" ELSE digest_method
    IN  [ok             |-> ~Contains(sep, Base64Alphabet),
         secret_keys    |-> secret_keys,
         sep            |-> sep,
         salt           |-> IF salt = None THEN DefaultSignerSalt ELSE salt,
         key_derivation |-> IF key_derivation = "" THEN "django-concat"
                            ELSE key_derivation,
         digest_method  |-> dm,
         algorithm      |-> IF algorithm = UnsetAlgorithm THEN HMACAlgorithm(dm)
                            ELSE algorithm]

\* Signer.derive_key(secret_key); None stands for the TypeError raised for an
\* unknown key derivation
derive_key(self, secret_key) ==
    CASE self.key_derivation = "concat" ->
             Digest(self.digest_method, self.salt \o secret_key)
      [] self.key_derivation = "django-concat" ->
             Digest(self.digest_method, self.salt \o SignerWord \o secret_key)
      [] self.key_derivation = "hmac" ->
             HMAC(self.digest_method, secret_key, self.salt)
      [] self.key_derivation = "none" -> secret_key
      [] OTHER -> None

\* Signer.get_signature: signs with the last key of the ring
get_signature(self, value) ==
    base64_encode(Algorithm_get_signature(
        self.algorithm,
        derive_key(self, self.secret_keys[Len(self.secret_keys)]),
        value))

\* Signer.sign
sign(self, value) == value \o self.sep \o get_signature(self, value)

\* a verification with the newest key only
VerifyNewestOnly(self, value, sig, i) ==
    /\ i >= 1
    /\ Algorithm_verify_signature(
           self.algorithm, derive_key(self, self.secret_keys[i]), value, sig)

\* the loop of Signer.verify_signature over reversed(self.secret_keys),
\* from key i down to the first
RECURSIVE VerifyFrom(_, _, _, _)
VerifyFrom(self, value, sig, i) ==
    IF i < 1 THEN FALSE
    ELSE IF Algorithm_verify_signature(
                self.algorithm, derive_key(self, self.secret_keys[i]), value, sig)
    THEN TRUE
    ELSE VerifyFrom(self, value, sig, i - 1)

\* a loop that tries every other key of the ring only
RECURSIVE EveryOtherKeyTried(_, _, _, _, _)
EveryOtherKeyTried(self, value, sig, i, tried) ==
    IF i < 1 THEN [result |-> FALSE, steps |-> tried]
    ELSE IF Algorithm_verify_signature(
                self.algorithm, derive_key(self, self.secret_keys[i]), value, sig)
    THEN [result |-> TRUE, steps |-> tried + 1]
    ELSE EveryOtherKeyTried(self, value, sig, i - 2, tried + 1)

\* the loop of Signer.verify_signature with the keys it tried counted: tried
\* keys were taken from the ring when key i is up
RECURSIVE VerifyLoop(_, _, _, _, _)
VerifyLoop(self, value, sig, i, tried) ==
    IF i < 1 THEN [result |-> FALSE, steps |-> tried]
    ELSE IF Algorithm_verify_signature(
                self.algorithm, derive_key(self, self.secret_keys[i]), value, sig)
    THEN [result |-> TRUE, steps |-> tried + 1]
    ELSE VerifyLoop(self, value, sig, i - 1, tried + 1)

\* the run of Signer.verify_signature(value, sig): what it returns and the
\* number of keys it tried
VerifyRun(self, value, sig) ==
    Bind(base64_decode(sig), LAMBDA d :
         IF ~d.ok THEN [result |-> FALSE, steps |-> 0]
         ELSE VerifyLoop(self, value, d.data, Len(self.secret_keys), 0))

\* Signer.verify_signature: the signature is decoded first, the comparison
\* is made on the decoded bytes
verify_signature(self, value, sig) ==
    \E d \in {base64_decode(sig)} :
        IF ~d.ok THEN FALSE
        ELSE \E data \in {d.data} :
                 VerifyFrom(self, value, data, Len(self.secret_keys))

\* Signer.unsign
unsign(self, signed_value) ==
    IF ~Contains(self.sep, signed_value)
    THEN BadSignature("No sep found in value", None)
    ELSE Bind(RSplit(signed_value, self.sep), LAMBDA parts :
              IF verify_signature(self, parts[1], parts[2])
              THEN Returns(parts[1])
              ELSE BadSignature("Signature does not match", parts[1]))

---------------------------------------------------------------------------
(* itsdangerous.py: the single-module release.  Its Signer holds one key   *)
(* and compares the signature text; TimestampSigner, the timed and         *)
(* URL-safe serializers and the JWS serializer are built on it.            *)

\* a loop that leaves at the first pair of characters that differ
RECURSIVE ExitsAtFirstDifference(_, _, _, _)
ExitsAtFirstDifference(left, val2, i, result) ==
    IF i > Len(left) \/ i > Len(val2) THEN [result |-> result, steps |-> i - 1]
    ELSE IF left[i] # val2[i] THEN [result |-> 1, steps |-> i]
    ELSE ExitsAtFirstDifference(left, val2, i + 1, result)

\* the loop of constant_time_compare over izip(left, val2), from the i-th
\* pair on; result stays 0 as long as every pair of characters agrees, steps
\* counts the iterations made
RECURSIVE CompareLoop(_, _, _, _)
CompareLoop(left, val2, i, result) ==
    IF i > Len(left) \/ i > Len(val2) THEN [result |-> result, steps |-> i - 1]
    ELSE CompareLoop(left, val2, i + 1,
                     IF left[i] = val2[i] THEN result ELSE 1)

\* the run of constant_time_compare(val1, val2): the value of result after
\* the loop and the iterations made
CompareRun(val1, val2) ==
    Bind(val1, LAMBDA a : Bind(val2, LAMBDA b :
         LET len_eq == Len(a) = Len(b)
         IN  Bind(IF len_eq THEN a ELSE b, LAMBDA left :
                  CompareLoop(left, b, 1, IF len_eq THEN 0 ELSE 1))))

\* constant_time_compare(val1, val2): result == 0
constant_time_compare(val1, val2) == CompareRun(val1, val2).result = 0

\* an int_to_bytes that does not reverse the bytes it collected
RECURSIVE LowByteFirst(_)
LowByteFirst(num) ==
    IF num = 0 THEN <<>> ELSE <<num % 256>> \o LowByteFirst(num \div 256)

\* int_to_bytes(num), num >= 0: big-endian, no leading zero byte
RECURSIVE int_to_bytes(_)
int_to_bytes(num) ==
    IF num = 0 THEN <<>> ELSE Append(int_to_bytes(num \div 256), num % 256)

\* bytes_to_int(bytes): reduce(lambda a, b: a << 8 | b, imap(ord, bytes), 0)
RECURSIVE bytes_to_int(_)
bytes_to_int(bytes) ==
    IF bytes = <<>> THEN 0
    ELSE bytes_to_int(SubSeq(bytes, 1, Len(bytes) - 1)) * 256 + bytes[Len(bytes)]

\* Signer.__init__ of itsdangerous.py: `salt or "itsdangerous.Signer"`, and
\* no check of the separator
Legacy_Signer(secret_key, salt, sep, key_derivation, digest_method, algorithm) ==
    LET dm == IF digest_method = "" THEN "sha1" ELSE digest_method
    IN  [ok             |-> TRUE,
         secret_keys    |-> <<secret_key>>,
         sep            |-> sep,
         salt           |-> IF salt = None \/ salt = <<>> THEN DefaultSignerSalt
                            ELSE salt,
         key_derivation |-> IF key_derivation = "" THEN "django-concat"
                            ELSE key_derivation,
         digest_method  |-> dm,
         algorithm      |-> IF algorithm = UnsetAlgorithm THEN HMACAlgorithm(dm)
                            ELSE algorithm]

\* Signer.derive_key of itsdangerous.py
Legacy_derive_key(self) ==
    LET secret_key == self.secret_keys[1]
    IN  CASE self.key_derivation = "concat" ->
                 Digest(self.digest_method, self.salt \o secret_key)
          [] self.key_derivation = "django-concat" ->
                 Digest(self.digest_method, self.salt \o SignerWord \o secret_key)
          [] self.key_derivation = "hmac" ->
                 HMAC(self.digest_method, secret_key, self.salt)
          [] self.key_derivation = "none" -> secret_key
          [] OTHER -> None

\* Signer.get_signature of itsdangerous.py
Legacy_get_signature(self, value) ==
    base64_encode(
        Algorithm_get_signature(self.algorithm, Legacy_derive_key(self), value))

\* Signer.sign of itsdangerous.py
Legacy_sign(self, value) ==
    value \o self.sep \o Legacy_get_signature(self, value)

\* an unsign whose BadSignature carries no payload
UnsignWithoutPayload(self, signed_value) ==
    IF ~Contains(self.sep, signed_value)
    THEN BadSignature("No sep found in value", None)
    ELSE Bind(RSplit(signed_value, self.sep), LAMBDA parts :
              IF constant_time_compare(parts[2],
                                       Legacy_get_signature(self, parts[1]))
              THEN Returns(parts[1])
              ELSE BadSignature("Signature does not match", None))

\* Signer.unsign of itsdangerous.py: the signature text is compared with the
\* text the signer would have produced
Legacy_unsign(self, signed_value) ==
    IF ~Contains(self.sep, signed_value)
    THEN BadSignature("No sep found in value", None)
    ELSE Bind(RSplit(signed_value, self.sep), LAMBDA parts :
              IF constant_time_compare(parts[2],
                                       Legacy_get_signature(self, parts[1]))
              THEN Returns(parts[1])
              ELSE BadSignature("Signature does not match", parts[1]))

\* a timestamp that goes back as the clock advances
CountsDown(clock) == IF clock > EPOCH THEN 0 ELSE 1

\* TimestampSigner.get_timestamp: int(time.time() - EPOCH)
get_timestamp(clock) == clock - EPOCH

\* TimestampSigner.timestamp_to_datetime: the datetime is the Unix time it
\* stands for
timestamp_to_datetime(ts) == ts + EPOCH

\* a sign that leaves the timestamp out of the signed bytes
TimestampNotSigned(self, value, clock) ==
    LET timestamp == base64_encode(int_to_bytes(get_timestamp(clock)))
    IN  value \o self.sep \o timestamp \o self.sep
        \o Legacy_get_signature(self, value)

\* TimestampSigner.sign, with time.time() reading clock (at or after EPOCH)
TimestampSigner_sign(self, value, clock) ==
    LET timestamp == base64_encode(int_to_bytes(get_timestamp(clock)))
        value2    == value \o self.sep \o timestamp
    IN  value2 \o self.sep \o Legacy_get_signature(self, value2)

BadTimeSignature(msg, payload, date_signed, date_kind) ==
    [NoOut EXCEPT !.kind = "BadTimeSignature", !.msg = msg,
                  !.payload = payload, !.date_signed = date_signed,
                  !.date_kind = date_kind]

SignatureExpired(msg, payload, date_signed) ==
    [NoOut EXCEPT !.kind = "SignatureExpired", !.msg = msg,
                  !.payload = payload, !.date_signed = date_signed,
                  !.date_kind = "datetime"]

\* an expiry test that also rejects an age equal to max_age
ExpiredAtMaxAge(age, max_age) == age >= max_age

\* the test `age > max_age` of TimestampSigner.unsign
Expired(age, max_age) == age > max_age

\* Python's integers are unbounded.  A decoded timestamp of more than three
\* significant bytes is held as Huge: it is later than every clock reading
\* followed, and only its being so is used.
Huge == 16777216

FitsInt(bytes) == \A i \in 1..(Len(bytes) - 3) : bytes[i] = 0

\* a continuation byte of UTF-8
IsCont(s, i) == i <= Len(s) /\ s[i] >= 128 /\ s[i] <= 191

\* whether s[i..] decodes as UTF-8 (str.decode('utf-8')): one byte below
\* 0x80, or a lead byte with its continuation bytes; the overlong forms and
\* the code points past U+10FFFF do not decode
RECURSIVE IsUtf8From(_, _)
IsUtf8From(s, i) ==
    IF i > Len(s) THEN TRUE
    ELSE IF s[i] < 128 THEN IsUtf8From(s, i + 1)
    ELSE IF s[i] >= 194 /\ s[i] <= 223
    THEN IsCont(s, i + 1) /\ IsUtf8From(s, i + 2)
    ELSE IF s[i] >= 224 /\ s[i] <= 239
    THEN /\ IsCont(s, i + 1) /\ IsCont(s, i + 2)
         /\ s[i] = 224 => s[i + 1] >= 160
         /\ IsUtf8From(s, i + 3)
    ELSE IF s[i] >= 240 /\ s[i] <= 244
    THEN /\ IsCont(s, i + 1) /\ IsCont(s, i + 2) /\ IsCont(s, i + 3)
         /\ s[i] = 240 => s[i + 1] >= 144
         /\ s[i] = 244 => s[i + 1] <= 143
         /\ IsUtf8From(s, i + 4)
    ELSE FALSE

\* BadData.__unicode__: self.message.decode('utf-8'), for the message
\* 'Signature "%s" does not match' % sig of Signer.unsign; the message
\* decodes when the signature text in it does
MessageDecodes(self, signed_value) ==
    Bind(RSplit(signed_value, self.sep), LAMBDA parts : IsUtf8From(parts[2], 1))

UnicodeDecodeError ==
    [NoOut EXCEPT !.kind = "UnicodeDecodeError",
                  !.msg = "'utf8' codec can't decode byte"]

\* an unsign that checks max_age before the structure of the timestamp: a
\* missing or malformed timestamp counts as the second 0
MaxAgeCheckedFirst(self, signed_value, max_age, return_timestamp, clock) ==
    Bind(Legacy_unsign(self, signed_value), LAMBDA first :
    LET sig_error == first.kind # "ok"
        result    == IF ~sig_error THEN first.value
                     ELSE IF first.payload = None THEN <<>> ELSE first.payload
        expired   == max_age # <<>> /\ Expired(get_timestamp(clock), max_age[1])
    IN  IF ~Contains(self.sep, result)
        THEN IF sig_error THEN first
             ELSE IF expired
             THEN SignatureExpired("Signature age > max_age seconds", result,
                                   timestamp_to_datetime(0))
             ELSE BadTimeSignature("timestamp missing", result, 0, "none")
        ELSE Bind(RSplit(result, self.sep), LAMBDA parts :
             Bind(base64_decode(parts[2]), LAMBDA decoded :
             Bind(IF ~decoded.ok THEN 0
                  ELSE IF FitsInt(decoded.data) THEN bytes_to_int(decoded.data)
                  ELSE Huge, LAMBDA timestamp :
             LET value     == parts[1]
                 malformed == ~decoded.ok
             IN  IF sig_error
                 THEN [(IF ~MessageDecodes(self, signed_value)
                        THEN UnicodeDecodeError
                        ELSE BadTimeSignature(first.msg, value, timestamp,
                                              IF malformed THEN "none" ELSE "int"))
                          EXCEPT !.peeked = TRUE]
                 ELSE IF max_age # <<>>
                         /\ Expired(get_timestamp(clock) - timestamp, max_age[1])
                 THEN SignatureExpired("Signature age > max_age seconds", value,
                                       timestamp_to_datetime(timestamp))
                 ELSE IF malformed
                 THEN BadTimeSignature("Malformed timestamp", value, 0, "none")
                 ELSE IF return_timestamp
                 THEN [Returns(value) EXCEPT
                          !.date_signed = timestamp_to_datetime(timestamp),
                          !.date_kind = "datetime"]
                 ELSE Returns(value)))))

\* TimestampSigner.unsign(value, max_age, return_timestamp), with time.time()
\* reading clock; max_age is <<>> for None and <<m>> for m seconds
TimestampSigner_unsign(self, signed_value, max_age, return_timestamp, clock) ==
    Bind(Legacy_unsign(self, signed_value), LAMBDA first :
    LET sig_error == first.kind # "ok"
        result    == IF ~sig_error THEN first.value
                     ELSE IF first.payload = None THEN <<>> ELSE first.payload
    IN  IF ~Contains(self.sep, result)
        THEN IF sig_error THEN first
             ELSE BadTimeSignature("timestamp missing", result, 0, "none")
        ELSE Bind(RSplit(result, self.sep), LAMBDA parts :
             Bind(base64_decode(parts[2]), LAMBDA decoded :
             Bind(IF ~decoded.ok THEN 0
                  ELSE IF FitsInt(decoded.data) THEN bytes_to_int(decoded.data)
                  ELSE Huge, LAMBDA timestamp :
             LET value     == parts[1]
                 malformed == ~decoded.ok
             IN  IF sig_error
                 THEN [(IF ~MessageDecodes(self, signed_value)
                        THEN UnicodeDecodeError
                        ELSE BadTimeSignature(first.msg, value, timestamp,
                                              IF malformed THEN "none" ELSE "int"))
                          EXCEPT !.peeked = TRUE]
                 ELSE IF malformed
                 THEN BadTimeSignature("Malformed timestamp", value, 0, "none")
                 ELSE IF max_age # <<>>
                         /\ Expired(get_timestamp(clock) - timestamp, max_age[1])
                 THEN SignatureExpired("Signature age > max_age seconds", value,
                                       timestamp_to_datetime(timestamp))
                 ELSE IF return_timestamp
                 THEN [Returns(value) EXCEPT
                          !.date_signed = timestamp_to_datetime(timestamp),
                          !.date_kind = "datetime"]
                 ELSE Returns(value)))))

---------------------------------------------------------------------------
(* The payload codec (json / simplejson, compact_json) and zlib            *)

\* The objects of the model and their JSON texts: text with the compact
\* separators (",", ":"), spaced with json's default ones (", ", ": ").
\* dict tells a JSON object; alg and typ are its "alg" and "typ" members
\* ("" when it has none).  An object is named by its index, 0 is None.
JsonTable ==
    << \* "hi"
       [text |-> <<34, 104, 105, 34>>, spaced |-> <<34, 104, 105, 34>>,
        dict |-> FALSE, alg |-> "", typ |-> ""],
       \* 4.5
       [text |-> <<52, 46, 53>>, spaced |-> <<52, 46, 53>>,
        dict |-> FALSE, alg |-> "", typ |-> ""],
       \* {"a": 1}
       [text |-> <<123, 34, 97, 34, 58, 49, 125>>,
        spaced |-> <<123, 34, 97, 34, 58, 32, 49, 125>>,
        dict |-> TRUE, alg |-> "", typ |-> ""],
       \* "aaaaaaaaaaaa"
       [text |-> <<34, 97, 97, 97, 97, 97, 97, 97, 97, 97, 97, 97, 97, 34>>,
        spaced |-> <<34, 97, 97, 97, 97, 97, 97, 97, 97, 97, 97, 97, 97, 34>>,
        dict |-> FALSE, alg |-> "", typ |-> ""],
       \* {"alg": "HS256"}
       [text |-> <<123, 34, 97, 108, 103, 34, 58, 34, 72, 83, 50, 53, 54, 34, 125>>,
        spaced |-> <<123, 34, 97, 108, 103, 34, 58, 32, 34, 72, 83, 50, 53, 54, 34, 125>>,
        dict |-> TRUE, alg |-> "HS256", typ |-> ""],
       \* {"alg": "HS384"}
       [text |-> <<123, 34, 97, 108, 103, 34, 58, 34, 72, 83, 51, 56, 52, 34, 125>>,
        spaced |-> <<123, 34, 97, 108, 103, 34, 58, 32, 34, 72, 83, 51, 56, 52, 34, 125>>,
        dict |-> TRUE, alg |-> "HS384", typ |-> ""],
       \* {"typ": "dummy"}
       [text |-> <<123, 34, 116, 121, 112, 34, 58, 34, 100, 117, 109, 109, 121, 34, 125>>,
        spaced |-> <<123, 34, 116, 121, 112, 34, 58, 32, 34, 100, 117, 109, 109, 121, 34, 125>>,
        dict |-> TRUE, alg |-> "", typ |-> "dummy"],
       \* {"alg": "HS256", "typ": "dummy"}
       [text |-> <<123, 34, 97, 108, 103, 34, 58, 34, 72, 83, 50, 53, 54, 34, 44,
                   34, 116, 121, 112, 34, 58, 34, 100, 117, 109, 109, 121, 34, 125>>,
        spaced |-> <<123, 34, 97, 108, 103, 34, 58, 32, 34, 72, 83, 50, 53, 54, 34, 44,
                     32, 34, 116, 121, 112, 34, 58, 32, 34, 100, 117, 109, 109, 121,
                     34, 125>>,
        dict |-> TRUE, alg |-> "HS256", typ |-> "dummy"],
       \* {"alg": "HS384", "typ": "dummy"}
       [text |-> <<123, 34, 97, 108, 103, 34, 58, 34, 72, 83, 51, 56, 52, 34, 44,
                   34, 116, 121, 112, 34, 58, 34, 100, 117, 109, 109, 121, 34, 125>>,
        spaced |-> <<123, 34, 97, 108, 103, 34, 58, 32, 34, 72, 83, 51, 56, 52, 34, 44,
                     32, 34, 116, 121, 112, 34, 58, 32, 34, 100, 117, 109, 109, 121,
                     34, 125>>,
        dict |-> TRUE, alg |-> "HS384", typ |-> "dummy"],
       \* "aaaaaaa"
       [text |-> <<34, 97, 97, 97, 97, 97, 97, 97, 34>>,
        spaced |-> <<34, 97, 97, 97, 97, 97, 97, 97, 34>>,
        dict |-> FALSE, alg |-> "", typ |-> ""],
       \* "aaaaaaaa"
       [text |-> <<34, 97, 97, 97, 97, 97, 97, 97, 97, 34>>,
        spaced |-> <<34, 97, 97, 97, 97, 97, 97, 97, 97, 34>>,
        dict |-> FALSE, alg |-> "", typ |-> ""],
       \* {"alg": "none"}
       [text |-> <<123, 34, 97, 108, 103, 34, 58, 34, 110, 111, 110, 101, 34, 125>>,
        spaced |-> <<123, 34, 97, 108, 103, 34, 58, 32, 34, 110, 111, 110, 101, 34,
                     125>>,
        dict |-> TRUE, alg |-> "none", typ |-> ""],
       \* {"alg": "HS512"}
       [text |-> <<123, 34, 97, 108, 103, 34, 58, 34, 72, 83, 53, 49, 50, 34, 125>>,
        spaced |-> <<123, 34, 97, 108, 103, 34, 58, 32, 34, 72, 83, 53, 49, 50, 34,
                     125>>,
        dict |-> TRUE, alg |-> "HS512", typ |-> ""] >>

Objects == 1..Len(JsonTable)

\* the object {"alg": "none"}
NoneHeader == CHOOSE o \in Objects : JsonTable[o].alg = "none"

\* json.dumps(obj) / simplejson.dumps(obj)
json_dumps(obj) == JsonTable[obj].spaced

\* _CompactJSON.dumps(obj): separators=(',', ':')
compact_json_dumps(obj) == JsonTable[obj].text

\* json.loads(payload), also _CompactJSON.loads: the object a text stands
\* for, 0 for the exception raised on a text that is not JSON
json_loads(payload) ==
    Bind(payload, LAMBDA text :
         Bind({o \in Objects : text \in {JsonTable[o].text, JsonTable[o].spaced}},
              LAMBDA hits : IF hits = {} THEN 0 ELSE CHOOSE o \in hits : TRUE))

\* serializer.dumps for the serializer module of a Serializer
codec_dumps(serializer, obj) ==
    IF serializer = "compact_json" THEN compact_json_dumps(obj)
    ELSE json_dumps(obj)

\* the length of the run of s[i] that starts at i
RECURSIVE RunLength(_, _)
RunLength(s, i) ==
    IF i < Len(s) /\ s[i + 1] = s[i] THEN 1 + RunLength(s, i + 1) ELSE 1

RECURSIVE Runs(_, _)
Runs(s, i) ==
    IF i > Len(s) THEN <<>>
    ELSE LET n == RunLength(s, i) IN <<n, s[i]>> \o Runs(s, i + n)

RECURSIVE ByteSum(_)
ByteSum(s) == IF s = <<>> THEN 0 ELSE (s[1] + ByteSum(Tail(s))) % 251

\* zlib.compress(data): a header byte, the runs of the data as (count, byte)
\* pairs, and a checksum of the data
zlib_compress(data) ==
    Bind(data, LAMBDA d : <<120>> \o Runs(d, 1) \o <<ByteSum(d)>>)

RECURSIVE Unruns(_, _)
Unruns(s, i) ==
    IF i + 1 > Len(s) THEN <<>>
    ELSE Repeat(s[i + 1], s[i]) \o Unruns(s, i + 2)

\* zlib.decompress(data); ok = FALSE stands for zlib.error
zlib_decompress(data) ==
    IF Len(data) < 2 \/ Len(data) % 2 # 0 \/ data[1] # 120
    THEN [ok |-> FALSE, data |-> <<>>]
    ELSE IF \E i \in 1..((Len(data) - 2) \div 2) : data[2 * i] = 0
    THEN [ok |-> FALSE, data |-> <<>>]
    ELSE Bind(SubSeq(data, 2, Len(data) - 1), LAMBDA runs :
         Bind(Unruns(runs, 1), LAMBDA body :
              IF ByteSum(body) # data[Len(data)]
              THEN [ok |-> FALSE, data |-> <<>>]
              ELSE [ok |-> TRUE, data |-> body]))

LoadsObject(obj) == [NoOut EXCEPT !.obj = obj]

BadPayload(msg) == [NoOut EXCEPT !.kind = "BadPayload", !.msg = msg]

---------------------------------------------------------------------------
(* Signer objects by class                                                 *)

\* signer_kwargs with nothing given
NoKwargs ==
    [sep |-> Dot, key_derivation |-> "", digest_method |-> "",
     algorithm |-> UnsetAlgorithm]

\* signer_class(secret_key, salt=salt, **kwargs) for the three signer
\* classes; secret_keys is the list (or the one key, as a list of one)
MakeSigner(class, secret_keys, salt, kwargs) ==
    IF class = "Signer"
    THEN [cls |-> class] @@
         Signer(secret_keys, salt, kwargs.sep, kwargs.key_derivation,
                kwargs.digest_method, kwargs.algorithm)
    ELSE [cls |-> class] @@
         Legacy_Signer(secret_keys[1], salt, kwargs.sep, kwargs.key_derivation,
                       kwargs.digest_method, kwargs.algorithm)

\* signer.sign(value) by the signer's class
Signer_sign(signer, value, clock) ==
    Bind(signer, LAMBDA self : Bind(value, LAMBDA v :
         CASE self.cls = "Signer" -> sign(self, v)
           [] self.cls = "Legacy_Signer" -> Legacy_sign(self, v)
           [] self.cls = "TimestampSigner" -> TimestampSigner_sign(self, v, clock)))

\* signer.unsign(value) by the signer's class
Signer_unsign(signer, signed_value, clock) ==
    Bind(signer, LAMBDA self : Bind(signed_value, LAMBDA s :
         CASE self.cls = "Signer" -> unsign(self, s)
           [] self.cls = "Legacy_Signer" -> Legacy_unsign(self, s)
           [] self.cls = "TimestampSigner" ->
                  TimestampSigner_unsign(self, s, <<>>, FALSE, clock)))

---------------------------------------------------------------------------
(* itsdangerous.py: Serializer, TimedSerializer, URLSafeSerializerMixin,   *)
(* JSONWebSignatureSerializer                                              *)

\* "itsdangerous"
DefaultSerializerSalt ==
    <<105, 116, 115, 100, 97, 110, 103, 101, 114, 111, 117, 115>>

LegacyClasses ==
    {"Legacy_Serializer", "TimedSerializer", "URLSafeSerializer",
     "URLSafeTimedSerializer", "JSONWebSignatureSerializer"}

\* Serializer.__init__ for the class cls and its default_serializer and
\* default_signer
Legacy_Serializer(cls, secret_key, salt, signer_kwargs) ==
    [cls              |-> cls,
     secret_keys      |-> <<secret_key>>,
     salt             |-> salt,
     serializer       |-> IF cls \in {"URLSafeSerializer", "URLSafeTimedSerializer"}
                          THEN "compact_json" ELSE "json",
     signer           |-> IF cls \in {"TimedSerializer", "URLSafeTimedSerializer"}
                          THEN "TimestampSigner" ELSE "Legacy_Signer",
     signer_kwargs    |-> signer_kwargs,
     fallback_signers |-> <<>>,
     algorithm_name   |-> ""]

\* JSONWebSignatureSerializer.jws_algorithms / make_algorithm
make_algorithm(algorithm_name) ==
    CASE algorithm_name = "HS256" -> HMACAlgorithm("sha256")
      [] algorithm_name = "HS384" -> HMACAlgorithm("sha384")
      [] algorithm_name = "HS512" -> HMACAlgorithm("sha512")
      [] algorithm_name = "none" -> NoneAlgorithm

\* JSONWebSignatureSerializer.__init__; algorithm_name "" is None
JSONWebSignatureSerializer(secret_key, salt, signer_kwargs, algorithm_name) ==
    [cls              |-> "JSONWebSignatureSerializer",
     secret_keys      |-> <<secret_key>>,
     salt             |-> salt,
     serializer       |-> "compact_json",
     signer           |-> "Legacy_Signer",
     signer_kwargs    |-> signer_kwargs,
     fallback_signers |-> <<>>,
     algorithm_name   |-> IF algorithm_name = "" THEN "HS256" ELSE algorithm_name]

\* Serializer.load_payload(payload, serializer): every exception of the
\* codec becomes BadPayload
Legacy_load_payload(self, payload) ==
    Bind(json_loads(payload), LAMBDA obj :
         Decoding(payload, IF obj = 0
                           THEN BadPayload("Could not load the payload")
                           ELSE LoadsObject(obj)))

\* Serializer.dump_payload
Legacy_dump_payload(self, obj) == codec_dumps(self.serializer, obj)

\* URLSafeSerializerMixin.load_payload: payload[0] of an empty payload is an
\* IndexError
URLSafe_load_payload(self, payload) ==
    Decoding(payload,
    IF payload = <<>>
    THEN [NoOut EXCEPT !.kind = "IndexError", !.msg = "string index out of range"]
    ELSE LET decompress == payload[1] = 46
             body       == IF decompress THEN Tail(payload) ELSE payload
         IN  Bind(base64_decode(body), LAMBDA json :
             IF ~json.ok
             THEN BadPayload("Could not base64 decode the payload")
             ELSE IF ~decompress THEN Legacy_load_payload(self, json.data)
             ELSE Bind(zlib_decompress(json.data), LAMBDA raw :
                  [(IF ~raw.ok
                    THEN BadPayload("Could not zlib decompress the payload")
                    ELSE Legacy_load_payload(self, raw.data))
                      EXCEPT !.inflated = TRUE])))

\* a dump_payload that leaves the "." marker out of a compressed payload
MarkerLeftOut(self, obj) ==
    Bind(Legacy_dump_payload(self, obj), LAMBDA json :
    Bind(zlib_compress(json), LAMBDA compressed :
         LET is_compressed == Len(compressed) < Len(json) - 1
         IN  base64_encode(IF is_compressed THEN compressed ELSE json)))

\* a dump_payload that also compresses when that saves one byte only
CompressedAtBoundary(self, obj) ==
    Bind(Legacy_dump_payload(self, obj), LAMBDA json :
    Bind(zlib_compress(json), LAMBDA compressed :
         LET is_compressed == Len(compressed) <= Len(json) - 1
             base64d       == base64_encode(IF is_compressed THEN compressed
                                            ELSE json)
         IN  IF is_compressed THEN Dot \o base64d ELSE base64d))

\* URLSafeSerializerMixin.dump_payload
URLSafe_dump_payload(self, obj) ==
    Bind(Legacy_dump_payload(self, obj), LAMBDA json :
    Bind(zlib_compress(json), LAMBDA compressed :
         LET is_compressed == Len(compressed) < Len(json) - 1
             base64d       == base64_encode(IF is_compressed THEN compressed
                                            ELSE json)
         IN  IF is_compressed THEN Dot \o base64d ELSE base64d))

\* JSONWebSignatureSerializer.load_payload(payload, return_header); the
\* header comes back in the result's header field
JWS_load_payload(self, payload) ==
    Decoding(payload,
    IF ~Contains(Dot, payload)
    THEN BadPayload("No . found in value")
    ELSE Bind(Split(payload, Dot), LAMBDA parts :
         Bind(base64_decode(parts[1]), LAMBDA json_header :
         Bind(base64_decode(parts[2]), LAMBDA json_payload :
              IF ~json_header.ok \/ ~json_payload.ok
              THEN BadPayload("Could not base64 decode the payload")
              ELSE Bind(Legacy_load_payload(self, json_header.data), LAMBDA header :
                   IF header.kind # "ok" THEN header
                   ELSE IF ~JsonTable[header.obj].dict
                   THEN BadPayload("Header payload is not a JSON object")
                   ELSE Bind(Legacy_load_payload(self, json_payload.data),
                             LAMBDA body :
                             IF body.kind # "ok" THEN body
                             ELSE [body EXCEPT !.header = header.obj]))))))

\* JSONWebSignatureSerializer.dump_payload(header, obj)
JWS_dump_payload(self, header, obj) ==
    base64_encode(codec_dumps(self.serializer, header)) \o Dot \o
    base64_encode(codec_dumps(self.serializer, obj))

\* self.load_payload(payload) by the serializer's class
load_payload_of(self, payload) ==
    CASE self.cls \in {"URLSafeSerializer", "URLSafeTimedSerializer"} ->
             URLSafe_load_payload(self, payload)
      [] self.cls = "JSONWebSignatureSerializer" -> JWS_load_payload(self, payload)
      [] OTHER -> Legacy_load_payload(self, payload)

\* self.dump_payload(obj) by the serializer's class (Serializer and the
\* URL-safe mixin)
dump_payload_of(self, obj) ==
    IF self.cls \in {"URLSafeSerializer", "URLSafeTimedSerializer"}
    THEN URLSafe_dump_payload(self, obj)
    ELSE Legacy_dump_payload(self, obj)

\* Serializer.make_signer(salt) of itsdangerous.py
Legacy_make_signer(self, salt) ==
    MakeSigner(self.signer, self.secret_keys,
               IF salt = None THEN self.salt ELSE salt, self.signer_kwargs)

\* JSONWebSignatureSerializer.make_signer(salt, algorithm): the statement
\* `salt is self.salt` compares and assigns nothing, so a salt of None stays
\* None; signer_kwargs play no part
JWS_make_signer(self, salt) ==
    MakeSigner(self.signer, self.secret_keys, salt,
               [sep |-> Dot,
                key_derivation |-> IF salt = None THEN "none" ELSE "",
                digest_method |-> "",
                algorithm |-> make_algorithm(self.algorithm_name)])

\* a header that keeps the "alg" the caller gave
HeaderKeepsCallerAlg(self, header_fields) ==
    LET typ == IF header_fields = 0 THEN "" ELSE JsonTable[header_fields].typ
        alg == IF header_fields # 0 /\ JsonTable[header_fields].alg # ""
               THEN JsonTable[header_fields].alg ELSE self.algorithm_name
    IN  CHOOSE h \in Objects :
            /\ JsonTable[h].dict
            /\ JsonTable[h].alg = alg
            /\ JsonTable[h].typ = typ

\* JSONWebSignatureSerializer.make_header(header_fields): the JSON object
\* with the caller's "typ" (header_fields 0: None) and "alg" set
make_header(self, header_fields) ==
    LET typ == IF header_fields = 0 THEN "" ELSE JsonTable[header_fields].typ
    IN  CHOOSE h \in Objects :
            /\ JsonTable[h].dict
            /\ JsonTable[h].alg = self.algorithm_name
            /\ JsonTable[h].typ = typ

\* Serializer.dumps(obj, salt) of itsdangerous.py
Legacy_dumps(self, obj, salt, clock) ==
    Signer_sign(Legacy_make_signer(self, salt), dump_payload_of(self, obj), clock)

\* a loads that decodes the payload before it looks at the signature
DecodedBeforeVerified(self, s, salt, clock) ==
    Bind(Signer_unsign(Legacy_make_signer(self, salt), s, clock), LAMBDA unsigned :
    Bind(load_payload_of(self, IF Contains(Dot, s) THEN RSplit(s, Dot)[1] ELSE s),
         LAMBDA loaded :
         IF unsigned.kind # "ok"
         THEN [unsigned EXCEPT !.decoded = loaded.decoded,
                               !.inflated = loaded.inflated]
         ELSE loaded))

\* Serializer.loads(s, salt) of itsdangerous.py:
\* self.load_payload(self.make_signer(salt).unsign(s))
Legacy_loads(self, s, salt, clock) ==
    Bind(Signer_unsign(Legacy_make_signer(self, salt), s, clock), LAMBDA unsigned :
         IF unsigned.kind # "ok" THEN unsigned
         ELSE load_payload_of(self, unsigned.value))

\* TimedSerializer.loads(s, max_age, return_timestamp, salt)
TimedSerializer_loads(self, s, max_age, return_timestamp, salt, clock) ==
    Bind(Legacy_make_signer(self, salt), LAMBDA signer :
    Bind(TimestampSigner_unsign(signer, s, max_age, TRUE, clock), LAMBDA unsigned :
         IF unsigned.kind # "ok" THEN unsigned
         ELSE Bind(load_payload_of(self, unsigned.value), LAMBDA payload :
                   IF payload.kind # "ok" THEN payload
                   ELSE IF return_timestamp
                   THEN [payload EXCEPT !.date_signed = unsigned.date_signed,
                                        !.date_kind = unsigned.date_kind]
                   ELSE payload)))

\* JSONWebSignatureSerializer.dumps(obj, salt, header_fields)
JWS_dumps(self, obj, salt, header_fields) ==
    Bind(JWS_make_signer(self, salt), LAMBDA signer :
    Bind(JWS_dump_payload(self, make_header(self, header_fields), obj),
         LAMBDA payload : Legacy_sign(signer, payload)))

\* a loads that verifies with the algorithm the token's header names
AlgorithmFromHeader(self, s, salt, return_header) ==
    Bind(JWS_load_payload(self, RSplit(s, Dot)[1]), LAMBDA claimed :
    Bind(IF claimed.kind = "ok" /\ JsonTable[claimed.header].alg # ""
         THEN JsonTable[claimed.header].alg ELSE self.algorithm_name,
         LAMBDA name :
    Bind(Legacy_unsign(JWS_make_signer([self EXCEPT !.algorithm_name = name],
                                       salt), s),
         LAMBDA unsigned :
         IF unsigned.kind # "ok" THEN unsigned
         ELSE Bind(JWS_load_payload(self, unsigned.value), LAMBDA loaded :
                   IF loaded.kind # "ok" \/ return_header THEN loaded
                   ELSE [loaded EXCEPT !.header = 0]))))

\* JSONWebSignatureSerializer.loads(s, salt, return_header)
JWS_loads(self, s, salt, return_header) ==
    Bind(JWS_make_signer(self, salt), LAMBDA signer :
    Bind(Legacy_unsign(signer, s), LAMBDA unsigned :
         IF unsigned.kind # "ok" THEN unsigned
         ELSE Bind(JWS_load_payload(self, unsigned.value), LAMBDA loaded :
                   IF loaded.kind # "ok" THEN loaded
                   ELSE IF JsonTable[loaded.header].alg # self.algorithm_name
                   THEN Decoding(loaded.decoded,
                                 BadSignature("Algorithm mismatch", None))
                   ELSE IF return_header THEN loaded
                   ELSE [loaded EXCEPT !.header = 0])))

---------------------------------------------------------------------------
(* serializer.py: Serializer with a key ring and fallback signers          *)

\* Serializer.__init__ of serializer.py
Serializer(secret_keys, salt, serializer, signer_kwargs, fallback_signers) ==
    [cls              |-> "Serializer",
     secret_keys      |-> secret_keys,
     salt             |-> salt,
     serializer       |-> serializer,
     signer           |-> "Signer",
     signer_kwargs    |-> signer_kwargs,
     fallback_signers |-> fallback_signers,
     algorithm_name   |-> ""]

\* Serializer.load_payload of serializer.py
Serializer_load_payload(self, payload) ==
    Bind(json_loads(payload), LAMBDA obj :
         Decoding(payload, IF obj = 0
                           THEN BadPayload("Could not load the payload")
                           ELSE LoadsObject(obj)))

\* Serializer.dump_payload of serializer.py
Serializer_dump_payload(self, obj) == codec_dumps(self.serializer, obj)

\* a make_signer that ignores the salt argument of the call
SaltArgumentIgnored(self, salt) ==
    MakeSigner(self.signer, self.secret_keys, self.salt, self.signer_kwargs)

\* Serializer.make_signer(salt) of serializer.py: the signer gets the whole
\* key ring
Serializer_make_signer(self, salt) ==
    MakeSigner(self.signer, self.secret_keys,
               IF salt = None THEN self.salt ELSE salt, self.signer_kwargs)

\* the signers of a fallback entry with the newest key first
NewestKeyFirst(self, salt, fallback) ==
    LET class  == IF fallback.shape = "dict" THEN self.signer ELSE fallback.signer
        kwargs == IF fallback.shape = "class" THEN self.signer_kwargs
                  ELSE fallback.kwargs
        n      == Len(self.secret_keys)
    IN  [k \in 1..n |->
            MakeSigner(class, <<self.secret_keys[n + 1 - k]>>, salt, kwargs)]

\* the signers iter_unsigners builds for one fallback entry: one per key,
\* oldest first.  An entry is a dict of kwargs, a (class, kwargs) tuple or a
\* class.
FallbackSigners(self, salt, fallback) ==
    LET class  == IF fallback.shape = "dict" THEN self.signer ELSE fallback.signer
        kwargs == IF fallback.shape = "class" THEN self.signer_kwargs
                  ELSE fallback.kwargs
    IN  [k \in 1..Len(self.secret_keys) |->
            MakeSigner(class, <<self.secret_keys[k]>>, salt, kwargs)]

RECURSIVE FallbacksFrom(_, _, _)
FallbacksFrom(self, salt, i) ==
    IF i > Len(self.fallback_signers) THEN <<>>
    ELSE FallbackSigners(self, salt, self.fallback_signers[i])
         \o FallbacksFrom(self, salt, i + 1)

\* Serializer.iter_unsigners(salt), as the list of the signers it yields
iter_unsigners(self, salt) ==
    LET salt2 == IF salt = None THEN self.salt ELSE salt
    IN  <<Serializer_make_signer(self, salt2)>> \o FallbacksFrom(self, salt2, 1)

\* Serializer.dumps of serializer.py
Serializer_dumps(self, obj, salt, clock) ==
    Signer_sign(Serializer_make_signer(self, salt),
                Serializer_dump_payload(self, obj), clock)

\* a loop that keeps the first BadSignature where the last is meant
RECURSIVE LoadsKeepingFirst(_, _, _, _, _, _)
LoadsKeepingFirst(self, s, unsigners, i, last_exception, clock) ==
    IF i > Len(unsigners) THEN last_exception
    ELSE Bind(Signer_unsign(unsigners[i], s, clock), LAMBDA unsigned :
              IF unsigned.kind = "ok"
              THEN Serializer_load_payload(self, unsigned.value)
              ELSE LoadsKeepingFirst(self, s, unsigners, i + 1,
                                     IF last_exception = NoOut THEN unsigned
                                     ELSE last_exception, clock))

\* the loop of Serializer.loads from the i-th unsigner on; a BadSignature is
\* kept as last_exception, anything else load_payload raises leaves the loop
RECURSIVE LoadsFrom(_, _, _, _, _, _)
LoadsFrom(self, s, unsigners, i, last_exception, clock) ==
    IF i > Len(unsigners) THEN last_exception
    ELSE Bind(Signer_unsign(unsigners[i], s, clock), LAMBDA unsigned :
              IF unsigned.kind = "ok"
              THEN Serializer_load_payload(self, unsigned.value)
              ELSE LoadsFrom(self, s, unsigners, i + 1, unsigned, clock))

\* Serializer.loads of serializer.py
Serializer_loads(self, s, salt, clock) ==
    Bind(iter_unsigners(self, salt), LAMBDA unsigners :
         LoadsFrom(self, s, unsigners, 1, NoOut, clock))

---------------------------------------------------------------------------
(* The calls by class                                                      *)

\* serializer.dumps(obj, salt)
Dumps(self, obj, salt, clock) ==
    CASE self.cls = "Serializer" -> Serializer_dumps(self, obj, salt, clock)
      [] self.cls = "JSONWebSignatureSerializer" -> JWS_dumps(self, obj, salt, 0)
      [] OTHER -> Legacy_dumps(self, obj, salt, clock)

\* serializer.loads(s, salt) and, for the timed classes,
\* serializer.loads(s, max_age, salt=salt)
Loads(self, s, salt, max_age, clock) ==
    CASE self.cls = "Serializer" -> Serializer_loads(self, s, salt, clock)
      [] self.cls = "JSONWebSignatureSerializer" -> JWS_loads(self, s, salt, FALSE)
      [] self.cls \in {"TimedSerializer", "URLSafeTimedSerializer"} ->
             TimedSerializer_loads(self, s, max_age, FALSE, salt, clock)
      [] OTHER -> Legacy_loads(self, s, salt, clock)

\* self.load_payload(payload) as _loads_unsafe_impl calls it
LoadPayload(self, payload) ==
    IF self.cls = "Serializer" THEN Serializer_load_payload(self, payload)
    ELSE load_payload_of(self, payload)

\* a _loads_unsafe_impl that reports a recovered payload as verified
RecoveredAsValid(self, s, salt, max_age, clock) ==
    Bind(Loads(self, s, salt, max_age, clock), LAMBDA loaded :
         IF loaded.kind = "ok"
         THEN [NoOut EXCEPT !.valid = TRUE, !.obj = loaded.obj]
         ELSE IF ~IsA(loaded.kind, "BadSignature") THEN loaded
         ELSE IF loaded.payload = None THEN NoOut
         ELSE Bind(LoadPayload(self, loaded.payload), LAMBDA second :
                   IF second.kind = "ok"
                   THEN [NoOut EXCEPT !.valid = TRUE, !.obj = second.obj]
                   ELSE IF second.kind = "BadPayload" THEN NoOut
                   ELSE second))

\* Serializer._loads_unsafe_impl (the same code in both releases): the pair
\* (valid, obj) comes back as a result with kind "ok"; an exception that is
\* not a BadSignature, or that load_payload raises and is not a BadPayload,
\* leaves the call
loads_unsafe_impl(self, s, salt, max_age, clock) ==
    Bind(Loads(self, s, salt, max_age, clock), LAMBDA loaded :
         IF loaded.kind = "ok"
         THEN [NoOut EXCEPT !.valid = TRUE, !.obj = loaded.obj]
         ELSE IF ~IsA(loaded.kind, "BadSignature") THEN loaded
         ELSE IF loaded.payload = None THEN NoOut
         ELSE Bind(LoadPayload(self, loaded.payload), LAMBDA second :
                   IF second.kind = "ok"
                   THEN [NoOut EXCEPT !.obj = second.obj]
                   ELSE IF second.kind = "BadPayload" THEN NoOut
                   ELSE second))

\* serializer.loads_unsafe(s, salt) and, for the timed classes,
\* serializer.loads_unsafe(s, max_age, salt)
LoadsUnsafe(self, s, salt, max_age, clock) ==
    loads_unsafe_impl(self, s, salt, max_age, clock)

---------------------------------------------------------------------------
(* The channel: what a party without a key can assemble from the tokens it *)
(* has observed                                                            *)

\* bytes.upper()
Upper(s) == [i \in 1..Len(s) |-> IF s[i] >= 97 /\ s[i] <= 122 THEN s[i] - 32 ELSE s[i]]

\* bytes.replace(sep, b"")
RECURSIVE Without(_, _)
Without(s, sep) ==
    IF ~Contains(sep, s) THEN s
    ELSE LET i == FirstIndex(sep, s)
         IN  Slice(s, 1, i - 1) \o Without(Slice(s, i + Len(sep), Len(s)), sep)

\* the base64 character whose value differs from c's in the lowest bit
FlipLow(c) ==
    IF B64Val(c) >= 64 THEN c
    ELSE LET v == B64Val(c)
         IN  B64Chars[(IF v % 2 = 0 THEN v + 1 ELSE v - 1) + 1]

Mutations ==
    {"none", "upper", "append_a", "append_pad", "replace_first", "drop_sep",
     "flip_last", "truncate", "splice", "empty_value", "junk"}

\* the token assembled from the observed tokens t and u (u is used by the
\* splice only: the value of t under the signature of u)
Forge(m, t, u) ==
    CASE m = "none"          -> t
      [] m = "upper"         -> Upper(t)
      [] m = "append_a"      -> t \o <<97>>
      [] m = "append_pad"    -> t \o <<B64Pad>>
      [] m = "replace_first" -> <<97>> \o Tail(t)
      [] m = "drop_sep"      -> Without(t, Dot)
      [] m = "flip_last"     -> Slice(t, 1, Len(t) - 1) \o <<FlipLow(t[Len(t)])>>
      [] m = "truncate"      -> Slice(t, 1, Len(t) - 1)
      [] m = "splice"        -> RSplit(t, Dot)[1] \o Dot \o RSplit(u, Dot)[2]
      [] m = "empty_value"   -> Dot \o RSplit(t, Dot)[2]
      [] m = "junk"          -> <<120>>
      [] m = "append_ff"     -> t \o <<255>>
      [] m = "add_marker"    -> Dot \o t
      [] m = "strip_sig"     -> RSplit(t, Dot)[1] \o Dot
      [] m = "alg_none"      ->
             base64_encode(JsonTable[NoneHeader].text) \o Dot \o
             Split(RSplit(t, Dot)[1], Dot)[2] \o Dot
      [] m = "alg_changed"   ->
             base64_encode(JsonTable[NoneHeader].text) \o Dot \o
             Split(t, Dot)[2]

---------------------------------------------------------------------------
(* The state machine                                                       *)

\* the number of sign/dumps calls followed
MaxSigned == 1

\* the number of seconds the clock is followed past EPOCH
MaxClock == 1

\* nothing in flight
NoMessage == [src |-> <<>>, mutation |-> "none", token |-> None]

\* no call made yet
NoCall ==
    [op |-> "none", by |-> 0, salt |-> None, max_age |-> <<>>, src |-> <<>>,
     mutation |-> "none", token |-> <<>>, at |-> 0, out |-> NoOut]

\* the threads that call into the objects
Threads == {1, 2}

\* a thread that is in no call.  pc is the method the thread is about to
\* enter ("idle": none, "done": the call has its result); s, obj and salt are
\* the arguments; signer, payload, sig, k, salt_used and out are local names
\* of the method (salt_used is the salt iter_unsigners settled on, out holds
\* last_exception in loads and the result at "done");
\* overlap tells that the call made a step while another call was under way;
\* fallback and key are the positions of the two loops of iter_unsigners
Idle ==
    [pc |-> "idle", op |-> "none", by |-> 0, s |-> <<>>, obj |-> 0,
     salt |-> None, salt_used |-> None, signer |-> MakeSigner("Signer", <<>>, None, NoKwargs),
     payload |-> <<>>, sig |-> <<>>, k |-> 0, out |-> NoOut,
     overlap |-> FALSE, fallback |-> 0, key |-> 0]

IsTimed(self) ==
    self.cls \in {"TimestampSigner", "TimedSerializer", "URLSafeTimedSerializer"}

\* signer.unsign(s) and, for a TimestampSigner, signer.unsign(s, max_age)
CallUnsign(signer, s, max_age, clock) ==
    IF signer.cls = "TimestampSigner"
    THEN TimestampSigner_unsign(signer, s, max_age, FALSE, clock)
    ELSE Signer_unsign(signer, s, clock)

\* self.secret_keys[-1] of an empty list
IndexError ==
    [NoOut EXCEPT !.kind = "IndexError", !.msg = "list index out of range"]

\* the record of a call that takes no byte string from the channel
CallOn(op, i, token, out) ==
    [op |-> op, by |-> i, salt |-> None, max_age |-> <<>>, src |-> <<>>,
     mutation |-> "none", token |-> token, at |-> now, out |-> out]

\* signer.sign(value) on the i-th object; Signer.secret_key of an empty ring
\* is an IndexError
SignAct(i, value) ==
    /\ endpoints[i].role = "signer"
    /\ Cardinality(signed) < MaxSigned
    /\ IF endpoints[i].obj.secret_keys = <<>>
       THEN /\ res' = CallOn("sign", i, value, IndexError)
            /\ UNCHANGED <<endpoints, now, wire, inbox, signed, calls>>
       ELSE /\ \E token \in {Signer_sign(endpoints[i].obj, value, now)} :
                   /\ signed' = signed \cup
                          {[by |-> i, salt |-> None, value |-> value, obj |-> 0,
                            header_fields |-> 0, token |-> token, at |-> now]}
                   /\ wire' = wire \cup {token}
            /\ UNCHANGED <<endpoints, now, inbox, res, calls>>

\* the payload dumps hands to its signer
DumpPayload(self, obj) ==
    CASE self.cls = "Serializer" -> Serializer_dump_payload(self, obj)
      [] self.cls = "JSONWebSignatureSerializer" ->
             JWS_dump_payload(self, make_header(self, 0), obj)
      [] OTHER -> dump_payload_of(self, obj)

\* serializer.dumps(obj, salt) on the i-th object
DumpsAct(i, obj, salt) ==
    /\ endpoints[i].role = "serializer"
    /\ Cardinality(signed) < MaxSigned
    /\ IF endpoints[i].obj.secret_keys = <<>>
       THEN /\ res' = CallOn("dumps", i, <<>>, IndexError)
            /\ UNCHANGED <<endpoints, now, wire, inbox, signed, calls>>
       ELSE /\ \E token \in {Dumps(endpoints[i].obj, obj, salt, now)} :
                   /\ signed' = signed \cup
                          {[by |-> i, salt |-> salt,
                            value |-> DumpPayload(endpoints[i].obj, obj),
                            obj |-> obj, header_fields |-> 0, token |-> token,
                            at |-> now]}
                   /\ wire' = wire \cup {token}
            /\ UNCHANGED <<endpoints, now, inbox, res, calls>>

\* the channel hands over the byte string assembled from the observed tokens
\* t and u; the previous call's outcome is forgotten
Deliver(m, t, u) ==
    /\ inbox = NoMessage
    /\ m # "splice" => u = t
    /\ inbox' = [src |-> t, mutation |-> m, token |-> Forge(m, t, u)]
    /\ res' = NoCall
    /\ UNCHANGED <<endpoints, now, wire, signed, calls>>

\* the call record of an operation on the byte string in flight
Call(op, i, salt, max_age, out) ==
    [op |-> op, by |-> i, salt |-> salt, max_age |-> max_age,
     src |-> inbox.src, mutation |-> inbox.mutation, token |-> inbox.token,
     at |-> now, out |-> out]

\* signer.unsign(s[, max_age]) on the i-th object
UnsignAct(i, max_age) ==
    /\ inbox # NoMessage
    /\ endpoints[i].role = "signer"
    /\ max_age # <<>> => IsTimed(endpoints[i].obj)
    /\ res' = Call("unsign", i, None, max_age,
                   CallUnsign(endpoints[i].obj, inbox.token, max_age, now))
    /\ inbox' = NoMessage
    /\ UNCHANGED <<endpoints, now, wire, signed, calls>>

\* serializer.loads(s, salt[, max_age]) on the i-th object
LoadsAct(i, salt, max_age) ==
    /\ inbox # NoMessage
    /\ endpoints[i].role = "serializer"
    /\ max_age # <<>> => IsTimed(endpoints[i].obj)
    /\ res' = Call("loads", i, salt, max_age,
                   Loads(endpoints[i].obj, inbox.token, salt, max_age, now))
    /\ inbox' = NoMessage
    /\ UNCHANGED <<endpoints, now, wire, signed, calls>>

\* serializer.loads_unsafe(s, salt[, max_age]) on the i-th object
LoadsUnsafeAct(i, salt, max_age) ==
    /\ inbox # NoMessage
    /\ endpoints[i].role = "serializer"
    /\ max_age # <<>> => IsTimed(endpoints[i].obj)
    /\ res' = Call("loads_unsafe", i, salt, max_age,
                   LoadsUnsafe(endpoints[i].obj, inbox.token, salt, max_age, now))
    /\ inbox' = NoMessage
    /\ UNCHANGED <<endpoints, now, wire, signed, calls>>

\* serializer.dumps(obj, salt, header_fields) on the i-th object, a JSON Web
\* Signature serializer
DumpsHeaderAct(i, obj, salt, header_fields) ==
    /\ endpoints[i].role = "serializer"
    /\ endpoints[i].obj.cls = "JSONWebSignatureSerializer"
    /\ Cardinality(signed) < MaxSigned
    /\ \E self \in {endpoints[i].obj} :
       \E token \in {JWS_dumps(self, obj, salt, header_fields)} :
           /\ signed' = signed \cup
                  {[by |-> i, salt |-> salt,
                    value |-> JWS_dump_payload(
                                  self, make_header(self, header_fields), obj),
                    obj |-> obj, header_fields |-> header_fields,
                    token |-> token, at |-> now]}
           /\ wire' = wire \cup {token}
    /\ UNCHANGED <<endpoints, now, inbox, res, calls>>

\* serializer.loads(s, salt, return_header=True) on the i-th object, a JSON
\* Web Signature serializer
LoadsHeaderAct(i, salt) ==
    /\ inbox # NoMessage
    /\ endpoints[i].role = "serializer"
    /\ endpoints[i].obj.cls = "JSONWebSignatureSerializer"
    /\ res' = Call("loads_header", i, salt, <<>>,
                   JWS_loads(endpoints[i].obj, inbox.token, salt, TRUE))
    /\ inbox' = NoMessage
    /\ UNCHANGED <<endpoints, now, wire, signed, calls>>

\* serializer.load_payload(payload) on the i-th object
LoadPayloadAct(i, payload) ==
    /\ endpoints[i].role = "serializer"
    /\ res' = CallOn("load_payload", i, payload,
                     LoadPayload(endpoints[i].obj, payload))
    /\ UNCHANGED <<endpoints, now, wire, inbox, signed, calls>>

\* constant_time_compare(val1, val2): token holds val1, src holds val2
CompareAct(val1, val2) ==
    /\ \E run \in {CompareRun(val1, val2)} :
           res' = [CallOn("constant_time_compare", 0, val1,
                          [NoOut EXCEPT !.valid = (run.result = 0),
                                        !.steps = run.steps])
                      EXCEPT !.src = val2]
    /\ UNCHANGED <<endpoints, now, wire, inbox, signed, calls>>

\* int_to_bytes(num): number holds num, value the bytes returned
IntToBytesAct(num) ==
    /\ num >= 0
    /\ res' = CallOn("int_to_bytes", 0, <<>>,
                     [Returns(int_to_bytes(num)) EXCEPT !.number = num])
    /\ UNCHANGED <<endpoints, now, wire, inbox, signed, calls>>

\* bytes_to_int(bytes): token holds bytes, number the integer returned
BytesToIntAct(bytes) ==
    /\ res' = CallOn("bytes_to_int", 0, bytes,
                     [NoOut EXCEPT !.number = bytes_to_int(bytes)])
    /\ UNCHANGED <<endpoints, now, wire, inbox, signed, calls>>

\* signer.unsign(s, max_age, return_timestamp=True) on the i-th object, a
\* TimestampSigner
UnsignWithTimestampAct(i, max_age) ==
    /\ inbox # NoMessage
    /\ endpoints[i].role = "signer"
    /\ endpoints[i].obj.cls = "TimestampSigner"
    /\ res' = Call("unsign_timestamp", i, None, max_age,
                   TimestampSigner_unsign(endpoints[i].obj, inbox.token, max_age,
                                          TRUE, now))
    /\ inbox' = NoMessage
    /\ UNCHANGED <<endpoints, now, wire, signed, calls>>

\* the caller makes the call recorded in res once more, on the token it
\* holds and with the arguments of that call, at the clock as it is now:
\* signer.unsign(s, max_age) or serializer.loads(s, max_age, salt=salt) of
\* the timed classes
CallAgain ==
    /\ res.op \in {"unsign", "loads"}
    /\ IsTimed(endpoints[res.by].obj)
    /\ \E self \in {endpoints[res.by].obj} :
           res' = [res EXCEPT
                      !.mutation = "again",
                      !.at = now,
                      !.out = IF res.op = "unsign"
                              THEN CallUnsign(self, res.token, res.max_age, now)
                              ELSE Loads(self, res.token, res.salt, res.max_age,
                                         now)]
    /\ UNCHANGED <<endpoints, now, wire, inbox, signed, calls>>

\* signer.verify_signature(value, sig) on the i-th object, a Signer of
\* signer.py: token holds value, src holds sig
VerifySignatureAct(i, value, sig) ==
    /\ endpoints[i].role = "signer"
    /\ endpoints[i].obj.cls = "Signer"
    /\ \E run \in {VerifyRun(endpoints[i].obj, value, sig)} :
           res' = [CallOn("verify_signature", i, value,
                          [NoOut EXCEPT !.valid = run.result,
                                        !.steps = run.steps])
                      EXCEPT !.src = sig]
    /\ UNCHANGED <<endpoints, now, wire, inbox, signed, calls>>

\* whether a call of another thread is under way
OthersUnderWay(t) ==
    \E u \in Threads \ {t} : calls[u].pc \notin {"idle", "done"}

\* thread t enters op on the i-th object
Begin(t, op, i, s, obj, salt) ==
    /\ calls[t].pc = "idle"
    /\ endpoints[i].role = (IF op \in {"sign", "unsign"} THEN "signer"
                            ELSE "serializer")
    /\ endpoints[i].obj.cls \in {"Signer", "Serializer"}
    /\ calls' = [calls EXCEPT ![t] =
                    [Idle EXCEPT !.pc = op, !.op = op, !.by = i, !.s = s,
                                 !.obj = obj, !.salt = salt, !.k = 1]]
    /\ UNCHANGED <<endpoints, now, wire, inbox, signed, res>>

\* a make_signer that keeps the salt of the call on the object
SaltKeptOnSelf(self, salt) ==
    [self EXCEPT !.salt = IF salt = None THEN @ ELSE salt]

\* what make_signer(salt) leaves of self: salt is a local name, and no
\* attribute of self is assigned
make_signer_self(self, salt) == self

\* thread t makes the step of its call it is at.  Every self.<attribute> is
\* read from the object as it is at the step.
\*   Signer.sign:    want_bytes(value) + want_bytes(self.sep), then
\*                   self.get_signature(value)
\*   Signer.unsign:  the separator test and rsplit, then verify_signature
\*   Serializer.dumps: dump_payload, make_signer, sign
\*   Serializer.loads: the next signer of iter_unsigners, its unsign,
\*                   load_payload
Step(t) ==
    /\ calls[t].pc \notin {"idle", "done"}
    /\ \E c \in {[calls[t] EXCEPT !.overlap = @ \/ OthersUnderWay(t)]} :
       \E self \in {endpoints[c.by].obj} :
         CASE c.pc = "sign" ->
                  /\ calls' = [calls EXCEPT ![t] =
                         [c EXCEPT !.payload = c.s \o self.sep,
                                   !.pc = "get_signature"]]
                  /\ UNCHANGED endpoints
           [] c.pc = "get_signature" ->
                  /\ calls' = [calls EXCEPT ![t] =
                         [c EXCEPT !.out = Returns(c.payload \o
                                                   get_signature(self, c.s)),
                                   !.pc = "done"]]
                  /\ UNCHANGED endpoints
           [] c.pc = "unsign" ->
                  /\ calls' = [calls EXCEPT ![t] =
                         IF ~Contains(self.sep, c.s)
                         THEN [c EXCEPT !.out = BadSignature(
                                                    "No sep found in value", None),
                                        !.pc = "done"]
                         ELSE Bind(RSplit(c.s, self.sep), LAMBDA parts :
                                   [c EXCEPT !.payload = parts[1],
                                             !.sig = parts[2],
                                             !.pc = "verify_signature"])]
                  /\ UNCHANGED endpoints
           [] c.pc = "verify_signature" ->
                  /\ calls' = [calls EXCEPT ![t] =
                         [c EXCEPT !.out =
                                 IF verify_signature(self, c.payload, c.sig)
                                 THEN Returns(c.payload)
                                 ELSE BadSignature("Signature does not match",
                                                   c.payload),
                                   !.pc = "done"]]
                  /\ UNCHANGED endpoints
           [] c.pc = "dumps" ->
                  /\ calls' = [calls EXCEPT ![t] =
                         [c EXCEPT !.payload = Serializer_dump_payload(self, c.obj),
                                   !.pc = "make_signer"]]
                  /\ UNCHANGED endpoints
           [] c.pc = "make_signer" ->
                  /\ calls' = [calls EXCEPT ![t] =
                         [c EXCEPT !.signer = Serializer_make_signer(self, c.salt),
                                   !.pc = "signer_sign"]]
                  /\ endpoints' = [endpoints EXCEPT ![c.by].obj =
                                       make_signer_self(self, c.salt)]
           [] c.pc = "signer_sign" ->
                  /\ calls' = [calls EXCEPT ![t] =
                         [c EXCEPT !.out = Returns(Signer_sign(c.signer, c.payload,
                                                               now)),
                                   !.pc = "done"]]
                  /\ UNCHANGED endpoints
           [] c.pc = "loads" ->
                  \* if salt is None: salt = self.salt
                  /\ calls' = [calls EXCEPT ![t] =
                         [c EXCEPT !.salt_used = IF c.salt = None THEN self.salt
                                                 ELSE c.salt,
                                   !.pc = "iter_unsigners"]]
                  /\ UNCHANGED endpoints
           [] c.pc = "iter_unsigners" ->
                  /\ \E unsigners \in {iter_unsigners(self, c.salt_used)} :
                         calls' = [calls EXCEPT ![t] =
                             IF c.k > Len(unsigners)
                             THEN [c EXCEPT !.pc = "done"]
                             ELSE [c EXCEPT !.signer = unsigners[c.k],
                                            !.pc = "signer_unsign"]]
                  /\ endpoints' = [endpoints EXCEPT ![c.by].obj =
                                       IF c.k = 1
                                       THEN make_signer_self(self, c.salt_used)
                                       ELSE self]
           [] c.pc = "signer_unsign" ->
                  /\ \E unsigned \in {Signer_unsign(c.signer, c.s, now)} :
                         calls' = [calls EXCEPT ![t] =
                             IF unsigned.kind = "ok"
                             THEN [c EXCEPT !.payload = unsigned.value,
                                            !.pc = "load_payload"]
                             ELSE [c EXCEPT !.out = unsigned, !.k = c.k + 1,
                                            !.pc = "iter_unsigners"]]
                  /\ UNCHANGED endpoints
           [] c.pc = "load_payload" ->
                  /\ calls' = [calls EXCEPT ![t] =
                         [c EXCEPT !.out = Serializer_load_payload(self, c.payload),
                                   !.pc = "done"]]
                  /\ UNCHANGED endpoints
    /\ UNCHANGED <<now, wire, inbox, signed, res>>

\* thread t calls iter_unsigners(salt) on the i-th object: the generator
\* is created, none of its code has run
IterUnsignersBegin(t, i, salt) ==
    /\ calls[t].pc = "idle"
    /\ endpoints[i].role = "serializer"
    /\ endpoints[i].obj.cls = "Serializer"
    /\ calls' = [calls EXCEPT ![t] =
                    [Idle EXCEPT !.pc = "iter_start", !.op = "iter_unsigners",
                                 !.by = i, !.salt = salt]]
    /\ UNCHANGED <<endpoints, now, wire, inbox, signed, res>>

\* where the two loops of iter_unsigners stand next, from the fallback entry
\* f and the key j: the inner loop ends after the last key
RECURSIVE LoopPosition(_, _, _)
LoopPosition(self, f, j) ==
    IF f > Len(self.fallback_signers) THEN <<f, j>>
    ELSE IF j > Len(self.secret_keys) THEN LoopPosition(self, f + 1, 1)
    ELSE <<f, j>>

\* next() on the generator of thread t: the code of iter_unsigners runs to
\* its next yield (signer is the value yielded, k counts the yields) or to
\* its end (StopIteration: "done")
NextUnsigner(t) ==
    /\ calls[t].op = "iter_unsigners"
    /\ calls[t].pc \in {"iter_start", "iter_yielded"}
    /\ \E c \in {calls[t]} :
       \E self \in {endpoints[c.by].obj} :
           calls' = [calls EXCEPT ![t] =
               IF c.pc = "iter_start"
               THEN Bind(IF c.salt = None THEN self.salt ELSE c.salt,
                         LAMBDA salt :
                         [c EXCEPT !.salt_used = salt,
                                   !.signer = Serializer_make_signer(self, salt),
                                   !.k = 1, !.fallback = 1, !.key = 1,
                                   !.pc = "iter_yielded"])
               ELSE Bind(LoopPosition(self, c.fallback, c.key), LAMBDA at :
                         IF at[1] > Len(self.fallback_signers)
                         THEN [c EXCEPT !.pc = "done"]
                         ELSE [c EXCEPT
                                  !.signer = FallbackSigners(
                                                 self, c.salt_used,
                                                 self.fallback_signers[at[1]])[at[2]],
                                  !.k = c.k + 1,
                                  !.fallback = at[1], !.key = at[2] + 1])]
    /\ UNCHANGED <<endpoints, now, wire, inbox, signed, res>>

\* the call of thread t returns or raises: its outcome is the thread's
\* alone, and the thread is free again
Return(t) ==
    /\ calls[t].pc = "done"
    /\ calls' = [calls EXCEPT ![t] = Idle]
    /\ UNCHANGED <<endpoints, now, wire, inbox, signed, res>>

\* a second passes
Tick ==
    /\ now < EPOCH + MaxClock
    /\ now' = now + 1
    /\ UNCHANGED <<endpoints, wire, inbox, signed, res, calls>>

\* the state after the objects of the list es are constructed
InitWith(es) ==
    /\ endpoints = es
    /\ now = EPOCH
    /\ wire = {}
    /\ inbox = NoMessage
    /\ signed = {}
    /\ res = NoCall
    /\ calls = [t \in Threads |-> Idle]

---------------------------------------------------------------------------
(* The inputs                                                              *)

\* two secret keys, b"k1" and b"k2"
K1 == <<107, 49>>
K2 == <<107, 50>>

\* the salt b"modified"
Modified == <<109, 111, 100, 105, 102, 105, 101, 100>>

\* b"|"
Bar == <<124>>

\* byte strings to sign: b"v" and b"a.|b", which holds both separators
Values == {<<118>>, <<97, 46, 124, 98>>}

\* the salt argument of a call: left out, or b"modified"
Salts == {None, Modified}

\* the max_age argument of a call: left out, -1, 0 or 1 second
MaxAges == {<<>>, <<-1>>, <<0>>, <<1>>}

\* signer_kwargs / a fallback entry that only changes the digest method
DigestKwargs(dm) == [NoKwargs EXCEPT !.digest_method = dm]

AsSigner(obj) == [role |-> "signer", obj |-> obj]
AsSerializer(obj) == [role |-> "serializer", obj |-> obj]

\* the number of objects constructed while the program runs
MaxObjects == 2

\* the secret_key argument of a constructor: one key, or a list of keys
OneKey(key) == [list |-> FALSE, keys |-> <<key>>]
KeyList(keys) == [list |-> TRUE, keys |-> keys]

\* Signer.__init__ / Serializer.__init__: a list is taken as the ring, a
\* single key becomes a ring of one
SecretKeyList(secret_key) ==
    IF secret_key.list THEN secret_key.keys ELSE <<secret_key.keys[1]>>

ValueError ==
    [NoOut EXCEPT !.kind = "ValueError",
                  !.msg = "The given separator cannot be used"]

\* Signer(secret_key, sep=sep) of signer.py: the object is there when
\* __init__ returns, and is not when it raises
NewSignerAct(secret_key, sep) ==
    /\ Len(endpoints) < MaxObjects
    /\ \E self \in {MakeSigner("Signer", SecretKeyList(secret_key), None,
                               [NoKwargs EXCEPT !.sep = sep])} :
           IF self.ok
           THEN /\ endpoints' = Append(endpoints, AsSigner(self))
                /\ res' = CallOn("Signer", Len(endpoints) + 1, sep, NoOut)
           ELSE /\ res' = CallOn("Signer", 0, sep, ValueError)
                /\ UNCHANGED endpoints
    /\ UNCHANGED <<now, wire, inbox, signed, calls>>

\* Signer(secret_key, sep=sep) of itsdangerous.py
NewLegacySignerAct(secret_key, sep) ==
    /\ Len(endpoints) < MaxObjects
    /\ endpoints' = Append(endpoints,
                           AsSigner(MakeSigner("Legacy_Signer", <<secret_key>>, None,
                                               [NoKwargs EXCEPT !.sep = sep])))
    /\ res' = CallOn("Legacy_Signer", Len(endpoints) + 1, sep, NoOut)
    /\ UNCHANGED <<now, wire, inbox, signed, calls>>

\* Serializer(secret_key) of serializer.py
NewSerializerAct(secret_key) ==
    /\ Len(endpoints) < MaxObjects
    /\ endpoints' = Append(endpoints,
                           AsSerializer(Serializer(SecretKeyList(secret_key),
                                                   DefaultSerializerSalt, "json",
                                                   NoKwargs, <<>>)))
    /\ res' = CallOn("Serializer", Len(endpoints) + 1, <<>>, NoOut)
    /\ UNCHANGED <<now, wire, inbox, signed, calls>>

---------------------------------------------------------------------------
(* Signing and verifying: signer.py's Signer with one key, with a ring,    *)
(* with another separator and derivation; the Signer of itsdangerous.py;   *)
(* serializers of both releases on the same keys.  The channel may hand    *)
(* over any byte string assembled from the tokens observed.                *)

Endpoints ==
    <<AsSigner(MakeSigner("Signer", <<K1>>, None, NoKwargs)),
      AsSigner(MakeSigner("Signer", <<K1, K2>>, None, NoKwargs)),
      AsSigner(MakeSigner("Signer", <<K2>>, None, NoKwargs)),
      AsSigner(MakeSigner("Signer", <<K1>>, Modified,
                          [sep |-> Bar, key_derivation |-> "hmac",
                           digest_method |-> "md5", algorithm |-> UnsetAlgorithm])),
      AsSigner(MakeSigner("Legacy_Signer", <<K1>>, None, NoKwargs)),
      AsSerializer(Serializer(<<K1>>, DefaultSerializerSalt, "json", NoKwargs, <<>>)),
      AsSerializer(Serializer(<<K1, K2>>, DefaultSerializerSalt, "json", NoKwargs,
                              <<>>)),
      AsSerializer(Legacy_Serializer("Legacy_Serializer", K1,
                                     DefaultSerializerSalt, NoKwargs))>>

Init == InitWith(Endpoints)

Next ==
    \/ \E i \in DOMAIN endpoints, value \in Values : SignAct(i, value)
    \/ \E i \in DOMAIN endpoints, obj \in {1, 2} : DumpsAct(i, obj, None)
    \/ \E m \in Mutations, t \in wire, u \in wire : Deliver(m, t, u)
    \/ \E i \in DOMAIN endpoints : UnsignAct(i, <<>>)
    \/ \E i \in DOMAIN endpoints : LoadsAct(i, None, <<>>)

Spec == Init /\ [][Next]_vars

---------------------------------------------------------------------------
(* Dumping and loading: one serializer of every class, and a second        *)
(* Serializer and a second JSON Web Signature serializer that differ from  *)
(* the first in the salt and in the algorithm.  Tokens arrive as sent.     *)

RoundTripEndpoints ==
    <<AsSerializer(Serializer(<<K1>>, DefaultSerializerSalt, "json", NoKwargs, <<>>)),
      AsSerializer(Serializer(<<K1>>, Modified, "json", NoKwargs, <<>>)),
      AsSerializer(Legacy_Serializer("Legacy_Serializer", K2,
                                     DefaultSerializerSalt, NoKwargs)),
      AsSerializer(Legacy_Serializer("TimedSerializer", K1,
                                     DefaultSerializerSalt, NoKwargs)),
      AsSerializer(Legacy_Serializer("URLSafeSerializer", K2,
                                     DefaultSerializerSalt, NoKwargs)),
      AsSerializer(Legacy_Serializer("URLSafeTimedSerializer", K1,
                                     DefaultSerializerSalt, NoKwargs)),
      AsSerializer(JSONWebSignatureSerializer(K2, None,
                                              NoKwargs, "")),
      AsSerializer(JSONWebSignatureSerializer(K2, None,
                                              NoKwargs, "HS384"))>>

\* 4.5, whose text holds the separator, and a string long enough to be
\* compressed
RoundTripObjects == {2, 4}

InitRoundTrip == InitWith(RoundTripEndpoints)

NextRoundTrip ==
    \/ \E i \in DOMAIN endpoints, obj \in RoundTripObjects, salt \in Salts :
           DumpsAct(i, obj, salt)
    \/ \E t \in wire : Deliver("none", t, t)
    \/ \E i \in DOMAIN endpoints, salt \in Salts : LoadsAct(i, salt, <<>>)

SpecRoundTrip == InitRoundTrip /\ [][NextRoundTrip]_vars

---------------------------------------------------------------------------
(* Expiry: the timestamp signer and the timed serializers under a clock    *)
(* that advances.  Tokens arrive as sent.                                  *)

TimedEndpoints ==
    <<AsSigner(MakeSigner("TimestampSigner", <<K1>>, None, NoKwargs)),
      AsSerializer(Legacy_Serializer("TimedSerializer", K1,
                                     DefaultSerializerSalt, NoKwargs)),
      AsSerializer(Legacy_Serializer("URLSafeTimedSerializer", K2,
                                     DefaultSerializerSalt, NoKwargs))>>

InitTimed == InitWith(TimedEndpoints)

NextTimed ==
    \/ \E i \in DOMAIN endpoints, value \in Values : SignAct(i, value)
    \/ \E i \in DOMAIN endpoints, obj \in {1, 2} : DumpsAct(i, obj, None)
    \/ \E t \in wire : Deliver("none", t, t)
    \/ \E i \in DOMAIN endpoints, max_age \in MaxAges : UnsignAct(i, max_age)
    \/ \E i \in DOMAIN endpoints, max_age \in MaxAges : LoadsAct(i, None, max_age)
    \/ Tick

SpecTimed == InitTimed /\ [][NextTimed]_vars

---------------------------------------------------------------------------
(* loads_unsafe: one serializer of every class on the same key.  The       *)
(* channel may hand over any byte string assembled from the tokens         *)
(* observed.                                                               *)

UnsafeEndpoints ==
    <<AsSerializer(Serializer(<<K1>>, DefaultSerializerSalt, "json", NoKwargs, <<>>)),
      AsSerializer(Legacy_Serializer("Legacy_Serializer", K1,
                                     DefaultSerializerSalt, NoKwargs)),
      AsSerializer(Legacy_Serializer("TimedSerializer", K1,
                                     DefaultSerializerSalt, NoKwargs)),
      AsSerializer(Legacy_Serializer("URLSafeSerializer", K1,
                                     DefaultSerializerSalt, NoKwargs)),
      AsSerializer(Legacy_Serializer("URLSafeTimedSerializer", K1,
                                     DefaultSerializerSalt, NoKwargs)),
      AsSerializer(JSONWebSignatureSerializer(K1, None,
                                              NoKwargs, ""))>>

UnsafeMutations == {"none", "append_a", "append_pad", "empty_value", "junk"}

InitUnsafe == InitWith(UnsafeEndpoints)

NextUnsafe ==
    \/ \E i \in DOMAIN endpoints : DumpsAct(i, 1, None)
    \/ \E m \in UnsafeMutations, t \in wire : Deliver(m, t, t)
    \/ \E i \in DOMAIN endpoints, salt \in Salts, max_age \in {<<>>, <<-1>>, <<0>>} :
           LoadsUnsafeAct(i, salt, max_age)

SpecUnsafe == InitUnsafe /\ [][NextUnsafe]_vars

---------------------------------------------------------------------------
(* JSON Web Signatures: serializers on one key that differ in the salt     *)
(* given at construction and in the algorithm; dumps with and without      *)
(* header fields, loads with and without return_header.  Tokens arrive as  *)
(* sent.                                                                   *)

JWSEndpoints ==
    <<AsSerializer(JSONWebSignatureSerializer(K1, None, NoKwargs, "")),
      AsSerializer(JSONWebSignatureSerializer(K1, Modified, NoKwargs, "")),
      AsSerializer(JSONWebSignatureSerializer(K1, DefaultSerializerSalt,
                                              NoKwargs, "HS256")),
      AsSerializer(JSONWebSignatureSerializer(K1, None, NoKwargs, "HS384"))>>

\* header_fields: left out, {"alg": "HS384"} and {"typ": "dummy"}
HeaderFields == {0, 6, 7}

\* the (obj, header_fields) given to dumps
DumpsArguments == {<<1, 0>>, <<2, 0>>, <<1, 6>>, <<2, 7>>}

InitJWS == InitWith(JWSEndpoints)

NextJWS ==
    \/ \E i \in DOMAIN endpoints, salt \in Salts, args \in DumpsArguments :
           /\ args[2] \in HeaderFields
           /\ DumpsHeaderAct(i, args[1], salt, args[2])
    \/ \E t \in wire : Deliver("none", t, t)
    \/ \E i \in DOMAIN endpoints, salt \in Salts : LoadsAct(i, salt, <<>>)
    \/ \E i \in DOMAIN endpoints, salt \in Salts : LoadsHeaderAct(i, salt)

SpecJWS == InitJWS /\ [][NextJWS]_vars

---------------------------------------------------------------------------
(* Time failures: timestamp signers on two keys and a Signer that attaches *)
(* no timestamp, on the key and salt of the first.  The channel may hand   *)
(* over a token changed, also by a byte that is not text.                  *)

TimeFailureEndpoints ==
    <<AsSigner(MakeSigner("TimestampSigner", <<K1>>, None, NoKwargs)),
      AsSigner(MakeSigner("Legacy_Signer", <<K1>>, None, NoKwargs)),
      AsSigner(MakeSigner("TimestampSigner", <<K2>>, None, NoKwargs))>>

TimeFailureMutations ==
    {"none", "append_a", "append_ff", "drop_sep", "flip_last", "empty_value",
     "junk"}

InitTimeFailures == InitWith(TimeFailureEndpoints)

NextTimeFailures ==
    \/ \E i \in DOMAIN endpoints, value \in Values : SignAct(i, value)
    \/ \E m \in TimeFailureMutations, t \in wire : Deliver(m, t, t)
    \/ \E i \in DOMAIN endpoints, max_age \in {<<>>, <<0>>} : UnsignAct(i, max_age)
    \/ Tick

SpecTimeFailures == InitTimeFailures /\ [][NextTimeFailures]_vars

---------------------------------------------------------------------------
(* Fallback signers: a Serializer with a ring of two keys and three        *)
(* fallback entries (a dict of kwargs, a (class, kwargs) tuple, a class),  *)
(* and Serializers whose tokens only one of its unsigners, or none,        *)
(* accepts.  The channel may hand over a token changed.                    *)

\* a fallback entry: {"digest_method": hashlib.sha512}
Sha512Fallback ==
    [shape |-> "dict", signer |-> "", kwargs |-> DigestKwargs("sha512")]

\* a fallback entry: (Signer, {"sep": b"|"})
BarFallback ==
    [shape |-> "tuple", signer |-> "Signer",
     kwargs |-> [NoKwargs EXCEPT !.sep = Bar]]

\* a fallback entry: Signer
ClassFallback == [shape |-> "class", signer |-> "Signer", kwargs |-> NoKwargs]

FallbackEndpoints ==
    <<AsSerializer(Serializer(<<K1, K2>>, DefaultSerializerSalt, "json",
                              DigestKwargs("md5"),
                              <<Sha512Fallback, ClassFallback, BarFallback>>)),
      AsSerializer(Serializer(<<K2>>, DefaultSerializerSalt, "json",
                              DigestKwargs("md5"), <<>>)),
      AsSerializer(Serializer(<<K1>>, DefaultSerializerSalt, "json",
                              DigestKwargs("sha512"), <<>>)),
      AsSerializer(Serializer(<<K1>>, DefaultSerializerSalt, "json",
                              [NoKwargs EXCEPT !.sep = Bar], <<>>)),
      AsSerializer(Serializer(<<K1>>, Modified, "json", NoKwargs, <<>>))>>

FallbackMutations == {"none", "append_a", "junk"}

InitFallback == InitWith(FallbackEndpoints)

NextFallback ==
    \/ \E i \in DOMAIN endpoints, obj \in {1, 2} : DumpsAct(i, obj, None)
    \/ \E m \in FallbackMutations, t \in wire : Deliver(m, t, t)
    \/ \E i \in DOMAIN endpoints : LoadsAct(i, None, <<>>)

SpecFallback == InitFallback /\ [][NextFallback]_vars

---------------------------------------------------------------------------
(* Construction: Signers and Serializers are constructed while the program *)
(* runs, from one key or a list of keys and with separators in and outside *)
(* the base64 alphabet, and then sign and verify.                          *)

\* b".", b"|", b"-", b"ab" (two letters in the order of the alphabet) and
\* b"-a"
Separators == {Dot, Bar, <<45>>, <<97, 98>>, <<45, 97>>}

\* b"k1", [], [b"k1"] and [b"k1", b"k2"]
SecretKeyArguments == {OneKey(K1), KeyList(<<>>), KeyList(<<K1>>), KeyList(<<K1, K2>>)}

InitConstruct == InitWith(<<>>)

NextConstruct ==
    \/ \E secret_key \in SecretKeyArguments, sep \in Separators :
           NewSignerAct(secret_key, sep)
    \/ \E sep \in Separators : NewLegacySignerAct(K1, sep)
    \/ \E secret_key \in SecretKeyArguments : NewSerializerAct(secret_key)
    \/ \E i \in DOMAIN endpoints : SignAct(i, <<118>>)
    \/ \E i \in DOMAIN endpoints : DumpsAct(i, 1, None)
    \/ \E t \in wire : Deliver("none", t, t)
    \/ \E i \in DOMAIN endpoints : UnsignAct(i, <<>>)
    \/ \E i \in DOMAIN endpoints : LoadsAct(i, None, <<>>)

SpecConstruct == InitConstruct /\ [][NextConstruct]_vars

---------------------------------------------------------------------------
(* The URL-safe payload: the URL-safe serializers dump objects whose text  *)
(* compression shortens by nothing, by one byte and by more, and load      *)
(* payloads that were dumped, that were changed at the marker, and that    *)
(* never were payloads.                                                    *)

URLSafeEndpoints ==
    <<AsSerializer(Legacy_Serializer("URLSafeSerializer", K1,
                                     DefaultSerializerSalt, NoKwargs)),
      AsSerializer(Legacy_Serializer("URLSafeTimedSerializer", K2,
                                     DefaultSerializerSalt, NoKwargs))>>

\* "hi", {"a": 1}, and "a" * 12, "a" * 7 and "a" * 8, whose compressed texts
\* are shorter by 6 bytes, by 1 byte and by 2 bytes
URLSafeObjects == {1, 3, 4, 10, 11}

\* b"", b".", b"kZ4m3du844lIN" (base64 with a character left over) and b"!"
PayloadArguments ==
    {<<>>, Dot, <<107, 90, 52, 109, 51, 100, 117, 56, 52, 52, 108, 73, 78>>, <<33>>}

\* the payloads dumped, and each of them with the marker added and with its
\* first byte taken away
PayloadsSeen ==
    UNION {{r.value, Dot \o r.value, Tail(r.value)} : r \in signed}

InitURLSafe == InitWith(URLSafeEndpoints)

NextURLSafe ==
    \/ \E i \in DOMAIN endpoints, obj \in URLSafeObjects : DumpsAct(i, obj, None)
    \/ \E i \in DOMAIN endpoints, payload \in PayloadArguments \cup PayloadsSeen :
           LoadPayloadAct(i, payload)
    \/ Tick

SpecURLSafe == InitURLSafe /\ [][NextURLSafe]_vars

---------------------------------------------------------------------------
(* Comparing signatures: constant_time_compare on every pair of strings of *)
(* "a" and "b" up to a length.                                             *)

\* the length of the strings compared
MaxCompared == 3

Compared == UNION {[1..n -> {97, 98}] : n \in 0..MaxCompared}

InitCompare == InitWith(<<>>)

NextCompare == \E val1 \in Compared, val2 \in Compared : CompareAct(val1, val2)

SpecCompare == InitCompare /\ [][NextCompare]_vars

---------------------------------------------------------------------------
(* Verifying before decoding: one serializer of every class on the same    *)
(* key and salt; objects whose payload is and is not compressed.  The       *)
(* channel may hand over a token changed, also with the compression marker *)
(* put in front.                                                           *)

VerifyFirstMutations == {"none", "append_a", "append_pad", "add_marker"}

InitVerifyFirst == InitWith(UnsafeEndpoints)

NextVerifyFirst ==
    \/ \E i \in DOMAIN endpoints, obj \in {1, 11} : DumpsAct(i, obj, None)
    \/ \E m \in VerifyFirstMutations, t \in wire : Deliver(m, t, t)
    \/ \E i \in DOMAIN endpoints : LoadsAct(i, None, <<>>)
    \/ \E i \in DOMAIN endpoints : LoadsUnsafeAct(i, None, <<>>)

SpecVerifyFirst == InitVerifyFirst /\ [][NextVerifyFirst]_vars

---------------------------------------------------------------------------
(* Concurrent calls: two threads call sign, unsign, dumps and loads on one *)
(* Signer and one Serializer with a key ring and a fallback, each call a   *)
(* step at a time, in any interleaving.  The clock stands still.           *)

ConcurrentEndpoints ==
    <<AsSigner(MakeSigner("Signer", <<K1, K2>>, None, NoKwargs)),
      AsSerializer(Serializer(<<K1, K2>>, DefaultSerializerSalt, "json",
                              DigestKwargs("md5"), <<Sha512Fallback>>))>>

\* the byte strings given to unsign: signed with the newest key, with the
\* oldest, changed, and without a separator
UnsignArguments ==
    {sign(ConcurrentEndpoints[1].obj, <<118>>),
     sign(MakeSigner("Signer", <<K1>>, None, NoKwargs), <<118>>),
     sign(ConcurrentEndpoints[1].obj, <<118>>) \o <<97>>,
     <<118>>}

\* the byte strings given to loads: dumped by the serializer, dumped with
\* the fallback's digest and the oldest key, and changed
LoadsArguments ==
    {Serializer_dumps(ConcurrentEndpoints[2].obj, 1, None, EPOCH),
     Serializer_dumps(Serializer(<<K1>>, DefaultSerializerSalt, "json",
                                 DigestKwargs("sha512"), <<>>), 3, None, EPOCH),
     Serializer_dumps(ConcurrentEndpoints[2].obj, 1, None, EPOCH) \o <<97>>}

InitConcurrent == InitWith(ConcurrentEndpoints)

NextConcurrent ==
    \/ \E t \in Threads, i \in DOMAIN endpoints :
           Begin(t, "sign", i, <<118>>, 0, None)
    \/ \E t \in Threads, i \in DOMAIN endpoints, s \in UnsignArguments :
           Begin(t, "unsign", i, s, 0, None)
    \/ \E t \in Threads, i \in DOMAIN endpoints, salt \in Salts :
           Begin(t, "dumps", i, <<>>, 1, salt)
    \/ \E t \in Threads, i \in DOMAIN endpoints, s \in LoadsArguments,
          salt \in Salts :
           Begin(t, "loads", i, s, 0, salt)
    \/ \E t \in Threads : Step(t)
    \/ \E t \in Threads : Return(t)

SpecConcurrent == InitConcurrent /\ [][NextConcurrent]_vars

---------------------------------------------------------------------------
(* Who signed, who verifies                                                *)

Range(seq) == {seq[k] : k \in DOMAIN seq}

\* the signer a serializer builds for a salt argument
SignerFor(self, salt) ==
    CASE self.cls = "Serializer" -> Serializer_make_signer(self, salt)
      [] self.cls = "JSONWebSignatureSerializer" -> JWS_make_signer(self, salt)
      [] OTHER -> Legacy_make_signer(self, salt)

\* the signer that produced the history record r
SignerOf(r) ==
    IF endpoints[r.by].role = "signer" THEN endpoints[r.by].obj
    ELSE SignerFor(endpoints[r.by].obj, r.salt)

\* the signers the call recorded in res verifies with
Verifiers ==
    IF endpoints[res.by].role = "signer" THEN <<endpoints[res.by].obj>>
    ELSE IF endpoints[res.by].obj.cls = "Serializer"
    THEN iter_unsigners(endpoints[res.by].obj, res.salt)
    ELSE <<SignerFor(endpoints[res.by].obj, res.salt)>>

\* the key a signer signs with
SigningKey(signer) == signer.secret_keys[Len(signer.secret_keys)]

\* same salt, key derivation and algorithm
SameContext(a, b) ==
    /\ a.salt = b.salt
    /\ a.key_derivation = b.key_derivation
    /\ a.algorithm = b.algorithm

\* the last call was made and returned
Returned(op) == res.op = op /\ res.out.kind = "ok"

\* the last call was made and raised an exception of the class
Raised(op, class) == res.op = op /\ IsA(res.out.kind, class)

---------------------------------------------------------------------------
(* Properties                                                              *)

\* C1  Payload integrity: whatever byte string the channel hands over,
\* every value Signer.unsign returns and every object Serializer.loads
\* returns was passed to sign/dumps before, by a signer with the same salt,
\* key derivation and algorithm as one the verifier tries and with a signing
\* key that is in that verifier's ring.
C1_PayloadIntegrity ==
    Returned("unsign") \/ Returned("loads") =>
        \E r \in signed :
            /\ r.at <= res.at
            /\ res.op = "unsign" => r.value = res.out.value
            /\ res.op = "loads" => r.obj # 0 /\ r.obj = res.out.obj
            /\ \E k \in DOMAIN Verifiers :
                   /\ SameContext(SignerOf(r), Verifiers[k])
                   /\ SigningKey(SignerOf(r)) \in Range(Verifiers[k].secret_keys)

\* C1 witness: a byte string that was assembled, not observed, was handed to
\* unsign, which returned a value
C1_Witness ==
    /\ Returned("unsign")
    /\ res.mutation # "none"
    /\ res.token \notin wire

\* the ways of changing a token that leave a token of a different text
TamperMutations ==
    {"upper", "append_a", "append_pad", "replace_first", "drop_sep",
     "flip_last", "truncate"}

\* loads was handed a changed token made from one that dumps produced
Tampered ==
    /\ res.op = "loads"
    /\ res.mutation \in TamperMutations
    /\ res.token # res.src
    /\ \E r \in signed : r.token = res.src /\ r.obj # 0

\* C3  Tampering detection at token level: for a token t = dumps(obj) and a
\* byte string different from t obtained by upper-casing t, appending a
\* byte, replacing the first byte, dropping the separator, or changing or
\* cutting the last byte of the signature, loads raises BadSignature.
C3_TamperingDetected == Tampered => IsA(res.out.kind, "BadSignature")

\* C3 on the Serializer of itsdangerous.py alone, whose signer compares the
\* signature text
C3_LegacyTamperingDetected ==
    Tampered /\ endpoints[res.by].obj.cls = "Legacy_Serializer" =>
        IsA(res.out.kind, "BadSignature")

\* the call was handed, as sent, the token of the history record r
SentBy(r) == res.mutation = "none" /\ res.token = r.token

\* C5  Key rotation: a token that arrives as sent is accepted, and its value
\* returned, by every signer or serializer of the same salt, key derivation
\* and algorithm whose ring contains the key it was signed with, and is
\* rejected with BadSignature when the ring does not contain that key; the
\* key signed with is the last of the signer's ring.
C5_KeyRotation ==
    \A r \in signed :
        /\ r.token = Signer_sign([SignerOf(r) EXCEPT
                                     !.secret_keys = <<SigningKey(SignerOf(r))>>],
                                 r.value, r.at)
        /\ (res.op \in {"unsign", "loads"} /\ SentBy(r)
            /\ endpoints[res.by].role = endpoints[r.by].role
            /\ SameContext(SignerOf(r), Verifiers[1])
            /\ SignerOf(r).sep = Verifiers[1].sep) =>
               IF SigningKey(SignerOf(r)) \in Range(Verifiers[1].secret_keys)
               THEN /\ res.out.kind = "ok"
                    /\ res.op = "unsign" => res.out.value = r.value
                    /\ res.op = "loads" => res.out.obj = r.obj
               ELSE res.out.kind = "BadSignature"

\* C5 witness: a signer with the ring [k1, k2] accepted a token signed with
\* the ring [k1]
C5_Witness ==
    /\ Returned("unsign")
    /\ Verifiers[1].secret_keys = <<K1, K2>>
    /\ \E r \in signed : SentBy(r) /\ SignerOf(r).secret_keys = <<K1>>

\* C7  Signer.unsign of signer.py: BadSignature without a payload when the
\* token holds no separator; otherwise, with the token split at its last
\* separator into value and sig, value is returned when sig verifies and
\* BadSignature with payload = value is raised when it does not.  So
\* unsign(sign(value)) = value, also for a value that holds the separator.
C7_UnsignSplitsAtLast ==
    res.op = "unsign" /\ endpoints[res.by].obj.cls = "Signer" =>
        LET self  == endpoints[res.by].obj
            i     == LastIndex(self.sep, res.token)
            value == Slice(res.token, 1, i - 1)
            sig   == Slice(res.token, i + Len(self.sep), Len(res.token))
        IN  /\ IF ~Contains(self.sep, res.token)
               THEN res.out.kind = "BadSignature" /\ res.out.payload = None
               ELSE IF verify_signature(self, value, sig)
               THEN res.out = Returns(value)
               ELSE res.out.kind = "BadSignature" /\ res.out.payload = value
            /\ \A r \in signed :
                   SentBy(r) /\ r.by = res.by => res.out = Returns(r.value)

\* C7 witness: a value that holds the signer's separator came back from
\* unsign(sign(value))
C7_Witness ==
    /\ Returned("unsign")
    /\ endpoints[res.by].obj.cls = "Signer"
    /\ Contains(endpoints[res.by].obj.sep, res.out.value)
    /\ \E r \in signed : SentBy(r) /\ r.by = res.by

\* C2  Round trip: for every serializer class, key, object and salt
\* argument, loads(dumps(obj, salt), salt) on the same serializer returns
\* obj.
C2_RoundTrip ==
    \A r \in signed :
        res.op = "loads" /\ SentBy(r) /\ res.by = r.by /\ res.salt = r.salt =>
            res.out.kind = "ok" /\ res.out.obj = r.obj

\* C2 witness: a URL-safe serializer loaded back an object whose payload it
\* had compressed
C2_Witness ==
    /\ Returned("loads")
    /\ \E r \in signed :
           /\ SentBy(r) /\ res.by = r.by /\ res.salt = r.salt
           /\ endpoints[r.by].obj.cls = "URLSafeTimedSerializer"
           /\ r.value[1] = 46

\* the salt in force: the salt argument of the call, or the salt given at
\* construction when the call has none
SaltInForce(self, salt) == IF salt = None THEN self.salt ELSE salt

\* the Serializer classes that sign with the salt in force; how
\* JSONWebSignatureSerializer comes by its salt is its make_signer's matter
SaltedClasses ==
    {"Serializer", "Legacy_Serializer", "TimedSerializer", "URLSafeSerializer",
     "URLSafeTimedSerializer"}

HS256TokenAtHS384(r) ==
    /\ res.op = "loads" /\ SentBy(r) /\ res.salt = r.salt
    /\ endpoints[r.by].obj.cls = "JSONWebSignatureSerializer"
    /\ endpoints[res.by].obj.cls = "JSONWebSignatureSerializer"
    /\ endpoints[r.by].obj.algorithm_name = "HS256"
    /\ endpoints[res.by].obj.algorithm_name = "HS384"
    /\ endpoints[r.by].obj.secret_keys = endpoints[res.by].obj.secret_keys

\* load_payload(e.payload) of the call's serializer gives back obj
PayloadRecovers(obj) ==
    /\ res.out.payload # None
    /\ LoadPayload(endpoints[res.by].obj, res.out.payload).kind = "ok"
    /\ LoadPayload(endpoints[res.by].obj, res.out.payload).obj = obj

\* C10 as stated: the load raises BadSignature with the message "Algorithm
\* mismatch" and a payload from which load_payload recovers the object.
C10_AlgorithmMismatchMessage ==
    \A r \in signed :
        HS256TokenAtHS384(r) =>
            /\ res.out.kind = "BadSignature"
            /\ res.out.msg = "Algorithm mismatch"
            /\ PayloadRecovers(r.obj)

\* C10  JWS algorithm binding: loading on a JSONWebSignatureSerializer
\* configured with HS384 a token produced with the same key by one
\* configured with HS256 raises the BadSignature of Signer.unsign, with the
\* message "Signature does not match" and a payload from which load_payload
\* recovers the object.
C10_AlgorithmBinding ==
    \A r \in signed :
        HS256TokenAtHS384(r) =>
            /\ res.out.kind = "BadSignature"
            /\ res.out.msg = "Signature does not match"
            /\ PayloadRecovers(r.obj)

\* C10 witness: the HS384 serializer has loaded an HS256 token, and failed
C10_Witness ==
    /\ Raised("loads", "BadSignature")
    /\ \E r \in signed : HS256TokenAtHS384(r)

\* C6  Expiry boundary: a token signed at clock reading t0 and handed as
\* sent to the timed unsign/loads of its signer at clock reading t1 with
\* max_age m is accepted exactly when t1 - t0 <= m; otherwise SignatureExpired
\* is raised with the signed value as payload and the datetime of t0 as
\* date_signed.
C6_ExpiryBoundary ==
    \A r \in signed :
        (/\ res.op \in {"unsign", "loads"} /\ SentBy(r) /\ res.by = r.by
         /\ res.max_age # <<>>) =>
            IF res.at - r.at <= res.max_age[1]
            THEN /\ res.out.kind = "ok"
                 /\ res.op = "unsign" => res.out.value = r.value
                 /\ res.op = "loads" => res.out.obj = r.obj
            ELSE /\ res.out.kind = "SignatureExpired"
                 /\ res.out.payload = r.value
                 /\ res.out.date_kind = "datetime"
                 /\ res.out.date_signed = r.at

\* C6 witness: a token was refused as expired at a clock reading later than
\* the one it was signed at
C6_Witness ==
    /\ Raised("loads", "SignatureExpired")
    /\ \E r \in signed : SentBy(r) /\ res.by = r.by /\ r.at < res.at

\* a token whose age equals max_age, and is not zero, was accepted
C6_BoundaryReached ==
    /\ Returned("unsign")
    /\ \E r \in signed :
           /\ SentBy(r) /\ res.by = r.by
           /\ res.max_age = <<res.at - r.at>> /\ r.at < res.at

\* C8  loads_unsafe never raises: for every serializer class, every byte
\* string handed over and every salt, it returns a pair.
C8_LoadsUnsafeNeverRaises == res.op = "loads_unsafe" => res.out.kind = "ok"

\* C9  loads_unsafe result: (True, obj) exactly when loads returns obj; when
\* loads raises a BadSignature e, (False, None) if e.payload is None or
\* load_payload(e.payload) raises BadPayload, (False, load_payload(e.payload))
\* when that returns.  The first component is True only if the signature
\* verified and, for a timed serializer given a max_age, the token's age is
\* within it.
C9_LoadsUnsafeResult ==
    res.op = "loads_unsafe" =>
        LET self   == endpoints[res.by].obj
            loaded == Loads(self, res.token, res.salt, res.max_age, res.at)
            second == LoadPayload(self, loaded.payload)
            pair   == res.out.kind = "ok"
        IN  /\ loaded.kind = "ok" =>
                   pair /\ res.out.valid /\ res.out.obj = loaded.obj
            /\ pair /\ res.out.valid => loaded.kind = "ok"
            /\ IsA(loaded.kind, "BadSignature") /\ loaded.payload = None =>
                   res.out = NoOut
            /\ IsA(loaded.kind, "BadSignature") /\ loaded.payload # None =>
                   /\ second.kind = "BadPayload" => res.out = NoOut
                   /\ second.kind = "ok" =>
                          pair /\ ~res.out.valid /\ res.out.obj = second.obj
            /\ pair /\ res.out.valid =>
                   /\ \E r \in signed :
                          /\ r.obj = res.out.obj
                          /\ SameContext(SignerOf(r), SignerFor(self, res.salt))
                   /\ IsTimed(self) /\ res.max_age # <<>> =>
                          \E r \in signed :
                              r.token = res.token /\ res.at - r.at <= res.max_age[1]

\* C9 witness: loads_unsafe called with another salt returned (False, obj)
C9_Witness ==
    /\ Returned("loads_unsafe")
    /\ ~res.out.valid
    /\ res.out.obj # 0
    /\ res.salt = Modified

\* the JSON Web Signature serializers i and j hold the same key and the same
\* algorithm and were given different salts at construction
DifferInSaltOnly(i, j) ==
    /\ endpoints[i].obj.cls = "JSONWebSignatureSerializer"
    /\ endpoints[j].obj.cls = "JSONWebSignatureSerializer"
    /\ endpoints[i].obj.secret_keys = endpoints[j].obj.secret_keys
    /\ endpoints[i].obj.algorithm_name = endpoints[j].obj.algorithm_name
    /\ endpoints[i].obj.salt # endpoints[j].obj.salt

\* C11  JWS salt handling: the signer a JSONWebSignatureSerializer builds
\* has key_derivation 'none' only when no salt is available (none given at
\* construction, none with the call) and otherwise derives its key from the
\* salt in force; so a token dumped without a salt argument is rejected with
\* BadSignature by loads, without a salt argument, on a serializer with the
\* same key and a different salt given at construction.
C11_JWSSaltHandling ==
    /\ (/\ res.op \in {"loads", "loads_header"}
        /\ endpoints[res.by].obj.cls = "JSONWebSignatureSerializer") =>
           LET self   == endpoints[res.by].obj
               signer == JWS_make_signer(self, res.salt)
           IN  IF res.salt = None /\ self.salt = None
               THEN signer.key_derivation = "none"
               ELSE /\ signer.key_derivation # "none"
                    /\ signer.salt = SaltInForce(self, res.salt)
    /\ \A r \in signed :
           (/\ res.op \in {"loads", "loads_header"} /\ SentBy(r)
            /\ r.salt = None /\ res.salt = None
            /\ DifferInSaltOnly(r.by, res.by)) =>
               IsA(res.out.kind, "BadSignature")

\* the token of a JSON Web Signature serializer was accepted by one that
\* differs from it in the salt given at construction only
C11_AcceptedAcrossSalts ==
    /\ Returned("loads")
    /\ \E r \in signed :
           /\ SentBy(r) /\ r.salt = None /\ res.salt = None
           /\ DifferInSaltOnly(r.by, res.by)

\* C12  TimestampSigner.unsign tells its failures apart by cause: an invalid
\* outer signature always surfaces as a BadSignature that is not a
\* BadTimeSignature; a BadTimeSignature that is not a SignatureExpired is
\* raised only when the signature is valid and the timestamp is missing or
\* malformed; SignatureExpired is raised only when signature and timestamp
\* are valid and the age exceeds max_age.
C12_FailuresByCause ==
    res.op = "unsign" /\ endpoints[res.by].obj.cls = "TimestampSigner" =>
        LET self   == endpoints[res.by].obj
            outer  == Legacy_unsign(self, res.token)
            valid  == outer.kind = "ok"
            has_ts == valid /\ Contains(self.sep, outer.value)
            ts     == base64_decode(RSplit(outer.value, self.sep)[2])
            age    == get_timestamp(res.at) - bytes_to_int(ts.data)
        IN  /\ ~valid => res.out.kind = "BadSignature"
            /\ res.out.kind = "BadTimeSignature" =>
                   valid /\ (~has_ts \/ ~ts.ok)
            /\ res.out.kind = "SignatureExpired" =>
                   /\ has_ts /\ ts.ok
                   /\ res.max_age # <<>> /\ age > res.max_age[1]

\* unsign of a TimestampSigner ended in an error that is no BadSignature
C12_ErrorEscapes ==
    /\ res.op = "unsign"
    /\ endpoints[res.by].obj.cls = "TimestampSigner"
    /\ res.out.kind = "UnicodeDecodeError"

\* the three classes of failure, each by the cause the code gives it, as
\* long as the signature text is text
C12_FailuresOfTextTokens ==
    (/\ res.op = "unsign" /\ endpoints[res.by].obj.cls = "TimestampSigner"
     /\ res.mutation # "append_ff") =>
        LET self   == endpoints[res.by].obj
            outer  == Legacy_unsign(self, res.token)
            valid  == outer.kind = "ok"
            split  == IF valid THEN Contains(self.sep, outer.value)
                      ELSE outer.payload # None /\ Contains(self.sep, outer.payload)
            ts     == base64_decode(RSplit(outer.value, self.sep)[2])
            age    == get_timestamp(res.at) - bytes_to_int(ts.data)
        IN  /\ ~valid =>
                   res.out.kind = (IF split THEN "BadTimeSignature" ELSE "BadSignature")
            /\ valid /\ res.out.kind = "BadTimeSignature" => ~split \/ ~ts.ok
            /\ res.out.kind = "SignatureExpired" =>
                   /\ valid /\ split /\ ts.ok
                   /\ res.max_age # <<>> /\ age > res.max_age[1]
            /\ res.out.kind \in {"ok", "BadSignature", "BadTimeSignature",
                                 "SignatureExpired"}

\* what each of the unsigners of the call recorded in res makes of its token
UnsignerOutcomes ==
    [k \in DOMAIN Verifiers |-> Signer_unsign(Verifiers[k], res.token, res.at)]

\* C13  Fallback loop: Serializer.loads tries the unsigners in the order of
\* iter_unsigners (the configured signer with the whole ring, then each
\* fallback signer with each key, oldest first); its result is load_payload
\* of the value of the first unsigner whose unsign succeeds; it raises a
\* BadSignature only when every unsigner has failed, and then the
\* BadSignature of the last unsigner tried.
C13_FallbackLoop ==
    res.op = "loads" /\ endpoints[res.by].obj.cls = "Serializer" =>
        LET self == endpoints[res.by].obj
            nkey == Len(self.secret_keys)
            outs == UnsignerOutcomes
            oks  == {k \in DOMAIN outs : outs[k].kind = "ok"}
        IN  /\ Len(Verifiers) = 1 + Len(self.fallback_signers) * nkey
            /\ Verifiers[1].secret_keys = self.secret_keys
            /\ \A f \in 1..Len(self.fallback_signers), k \in 1..nkey :
                   Verifiers[1 + (f - 1) * nkey + k].secret_keys
                       = <<self.secret_keys[k]>>
            /\ IF oks # {}
               THEN LET first == CHOOSE k \in oks : \A j \in oks : k <= j
                    IN  res.out = Serializer_load_payload(self, outs[first].value)
               ELSE /\ IsA(res.out.kind, "BadSignature")
                    /\ res.out = outs[Len(outs)]
            /\ \A r \in signed :
                   (SentBy(r) /\ \E k \in DOMAIN Verifiers :
                        /\ SameContext(SignerOf(r), Verifiers[k])
                        /\ SignerOf(r).sep = Verifiers[k].sep
                        /\ SigningKey(SignerOf(r)) \in Range(Verifiers[k].secret_keys))
                       => res.out.kind = "ok" /\ res.out.obj = r.obj

\* C13 witness: loads returned the object of a token that its configured
\* signer and the unsigners of its first fallback entries rejected
C13_Witness ==
    /\ Returned("loads")
    /\ Len(Verifiers) > 1
    /\ \A k \in 1..(Len(Verifiers) - 2) : UnsignerOutcomes[k].kind # "ok"
    /\ UnsignerOutcomes[Len(Verifiers) - 1].kind = "ok"

\* every unsigner failed, and loads raised an error that differs from the
\* one of its first unsigner
C13_LastErrorRaised ==
    /\ Raised("loads", "BadSignature")
    /\ Len(Verifiers) > 1
    /\ res.out # UnsignerOutcomes[1]

\* a byte that can occur in an encoded signature
InBase64Alphabet(b) == \E k \in DOMAIN Base64Alphabet : Base64Alphabet[k] = b

\* C14  Separator validation: constructing a Signer fails when the separator
\* is a byte of the URL-safe base64 alphabet and succeeds when it is a byte
\* outside it; so the separator of every Signer constructed, of one byte or
\* of several, holds no byte that can occur in an encoded signature.
C14_SeparatorValidation ==
    /\ (res.op \in {"Signer", "Legacy_Signer"} /\ Len(res.token) = 1) =>
           (res.out.kind = "ValueError" <=> InBase64Alphabet(res.token[1]))
    /\ \A i \in DOMAIN endpoints :
           endpoints[i].role = "signer" =>
               \A k \in DOMAIN endpoints[i].obj.sep :
                   ~InBase64Alphabet(endpoints[i].obj.sep[k])

\* the same of the Signer of signer.py and separators of one byte
C14_OneByteSeparators ==
    /\ (res.op = "Signer" /\ Len(res.token) = 1) =>
           (res.out.kind = "ValueError" <=> InBase64Alphabet(res.token[1]))
    /\ \A i \in DOMAIN endpoints :
           (/\ endpoints[i].role = "signer"
            /\ endpoints[i].obj.cls = "Signer"
            /\ Len(endpoints[i].obj.sep) = 1) =>
               ~InBase64Alphabet(endpoints[i].obj.sep[1])

\* a Signer of signer.py was constructed with a separator that holds bytes
\* of the alphabet
C14_AlphabetSeparatorAccepted ==
    \E i \in DOMAIN endpoints :
        /\ endpoints[i].role = "signer"
        /\ endpoints[i].obj.cls = "Signer"
        /\ \E k \in DOMAIN endpoints[i].obj.sep :
               InBase64Alphabet(endpoints[i].obj.sep[k])

URLSafeClasses == {"URLSafeSerializer", "URLSafeTimedSerializer"}

\* whether compression shortens the JSON text of obj by more than one byte
Shortens(obj) ==
    Len(zlib_compress(compact_json_dumps(obj))) < Len(compact_json_dumps(obj)) - 1

\* C15  Compression decision: URL-safe dump_payload uses the compressed body
\* exactly when len(zlib(json)) < len(json) - 1; the payload then is "."
\* followed by b64url(compressed), and otherwise b64url(json) with no leading
\* "."; load_payload decompresses exactly when the payload starts with ".",
\* so it recovers the object in both cases, and fails on a payload whose
\* marker was added or taken away.
C15_CompressionDecision ==
    /\ \A r \in signed :
           endpoints[r.by].obj.cls \in URLSafeClasses =>
               /\ r.value = IF Shortens(r.obj)
                            THEN Dot \o base64_encode(
                                     zlib_compress(compact_json_dumps(r.obj)))
                            ELSE base64_encode(compact_json_dumps(r.obj))
               /\ r.value[1] = 46 <=> Shortens(r.obj)
               /\ (res.op = "load_payload" /\ res.token = r.value) =>
                      res.out.kind = "ok" /\ res.out.obj = r.obj
               /\ (res.op = "load_payload" /\ res.token = Dot \o r.value) =>
                      /\ res.out.kind = "BadPayload"
                      /\ ~Shortens(r.obj) =>
                             res.out.msg = "Could not zlib decompress the payload"
               /\ (res.op = "load_payload" /\ res.token = Tail(r.value)
                   /\ Shortens(r.obj)) =>
                      /\ res.out.kind = "BadPayload"
                      /\ res.out.msg = "Could not load the payload"
    /\ (res.op = "load_payload" /\ res.token # <<>>
        /\ res.out.msg = "Could not zlib decompress the payload") =>
           res.token[1] = 46

\* C15 witness: load_payload gave back the object whose compressed text is
\* two bytes shorter than the text, from a payload that starts with "."
C15_Witness ==
    /\ Returned("load_payload")
    /\ res.token[1] = 46
    /\ res.out.obj = 11
    /\ \E r \in signed : r.value = res.token

\* an object whose compressed text is one byte shorter than the text was
\* dumped, not compressed
C15_BoundaryReached ==
    \E r \in signed :
        /\ r.obj = 10 /\ r.value[1] # 46
        /\ Len(zlib_compress(compact_json_dumps(10)))
               = Len(compact_json_dumps(10)) - 1

\* A-Z, a-z, 0-9, "_", "-" and "."
IsURLSafeByte(b) ==
    \/ b >= 65 /\ b <= 90
    \/ b >= 97 /\ b <= 122
    \/ b >= 48 /\ b <= 57
    \/ b \in {95, 45, 46}

\* C16  URL-safe alphabet: every token dumps of URLSafeSerializer and of
\* URLSafeTimedSerializer produces, for every object, compressed or not,
\* holds only bytes from A-Z, a-z, 0-9, "_", "-" and ".".
C16_URLSafeAlphabet ==
    \A r \in signed :
        endpoints[r.by].obj.cls \in URLSafeClasses =>
            \A k \in DOMAIN r.token : IsURLSafeByte(r.token[k])

\* C16 witness: URLSafeTimedSerializer dumped, after EPOCH, a token with a
\* compressed payload
C16_Witness ==
    \E r \in signed :
        /\ endpoints[r.by].obj.cls = "URLSafeTimedSerializer"
        /\ r.at > EPOCH
        /\ r.value[1] = 46

\* C17  URL-safe load_payload raises BadPayload on an empty payload, and no
\* byte string makes it fail with an error other than BadPayload.
C17_LoadPayloadErrors ==
    (res.op = "load_payload" /\ endpoints[res.by].obj.cls \in URLSafeClasses) =>
        /\ res.token = <<>> => res.out.kind = "BadPayload"
        /\ res.out.kind \in {"ok", "BadPayload"}

\* load_payload of a URL-safe serializer fails with BadPayload on every
\* payload that is not empty and is not what dump_payload produced for an
\* object
C17_NonEmptyPayloads ==
    (/\ res.op = "load_payload" /\ endpoints[res.by].obj.cls \in URLSafeClasses
     /\ res.token # <<>>) =>
        /\ res.out.kind \in {"ok", "BadPayload"}
        /\ res.token \in PayloadArguments => res.out.kind = "BadPayload"

\* C18  Constant-time comparison: the loop of constant_time_compare(val1,
\* val2) makes exactly len(val2) iterations, for every val1 and wherever the
\* two first differ, so two runs with the same val2 and candidates of equal
\* length make the same number of steps; the result is True exactly when
\* the two are equal.
C18_ConstantTimeCompare ==
    res.op = "constant_time_compare" =>
        /\ res.out.steps = Len(res.src)
        /\ res.out.valid <=> res.token = res.src

\* C18 witness: a candidate of the signature's length that differs from it
\* in the first character was compared in as many steps as the signature
\* is long
C18_Witness ==
    /\ res.op = "constant_time_compare"
    /\ Len(res.src) = MaxCompared
    /\ Len(res.token) = Len(res.src)
    /\ res.token[1] # res.src[1]
    /\ res.out.steps = MaxCompared

\* C19  Key ring non-emptiness: in every reachable state the list of secret
\* keys of every constructed Signer and Serializer is non-empty.
C19_KeyRingNonEmpty ==
    \A i \in DOMAIN endpoints : endpoints[i].obj.secret_keys # <<>>

\* an object with an empty ring fails to sign: secret_keys[-1] has nothing
\* to give
C19_EmptyRingCannotSign ==
    /\ res.op \in {"sign", "dumps"}
    /\ endpoints[res.by].obj.secret_keys = <<>>
    /\ res.out.kind = "IndexError"

\* the objects that sign and dump without an IndexError have a key, and
\* sign with the last one of the ring
C19_SigningHasAKey ==
    (res.op \in {"sign", "dumps"} /\ res.out.kind = "ok") =>
        endpoints[res.by].obj.secret_keys # <<>>

---------------------------------------------------------------------------
(* Expiry over time: the timed endpoints, whose callers repeat a call on   *)
(* the token they hold while the clock advances.                           *)

InitExpiry == InitWith(TimedEndpoints)

NextExpiry ==
    \/ \E i \in DOMAIN endpoints, value \in Values : SignAct(i, value)
    \/ \E i \in DOMAIN endpoints, obj \in {1, 2} : DumpsAct(i, obj, None)
    \/ \E t \in wire : Deliver("none", t, t)
    \/ \E i \in DOMAIN endpoints, max_age \in MaxAges : UnsignAct(i, max_age)
    \/ \E i \in DOMAIN endpoints, max_age \in MaxAges : LoadsAct(i, None, max_age)
    \/ CallAgain
    \/ Tick

SpecExpiry == InitExpiry /\ [][NextExpiry]_vars

---------------------------------------------------------------------------
(* Plain and timestamp tokens: a TimestampSigner, a Signer of the same key, *)
(* salt, separator, derivation and algorithm, and Signers that differ from *)
(* it in the key or in the salt.  The Signers also sign values that end in *)
(* a separator and the encoding of a number of seconds.                    *)

PlainTimedEndpoints ==
    <<AsSigner(MakeSigner("TimestampSigner", <<K1>>, None, NoKwargs)),
      AsSigner(MakeSigner("Legacy_Signer", <<K1>>, None, NoKwargs)),
      AsSigner(MakeSigner("Legacy_Signer", <<K2>>, None, NoKwargs)),
      AsSigner(MakeSigner("Legacy_Signer", <<K1>>, Modified, NoKwargs))>>

\* the seconds a crafted value names
Stamps == {0, 1, 300}

StampedValues ==
    {v \o Dot \o base64_encode(int_to_bytes(c)) : v \in Values, c \in Stamps}

InitPlainTimed == InitWith(PlainTimedEndpoints)

NextPlainTimed ==
    \/ \E i \in DOMAIN endpoints, value \in Values \cup StampedValues :
           SignAct(i, value)
    \/ \E t \in wire : Deliver("none", t, t)
    \/ \E i \in DOMAIN endpoints : UnsignWithTimestampAct(i, <<>>)
    \/ Tick

SpecPlainTimed == InitPlainTimed /\ [][NextPlainTimed]_vars

---------------------------------------------------------------------------
(* The integer encoding of the timestamp: int_to_bytes on the integers up  *)
(* to MaxNumber and around the powers of 256, bytes_to_int on the byte     *)
(* strings of up to MaxBytes bytes.                                        *)

MaxNumber == 300
MaxBytes == 2

Numbers == 0..MaxNumber \cup {65535, 65536, 65537, 16777215, 16777216}

ByteStrings == UNION {[1..n -> {0, 1, 128, 255}] : n \in 0..MaxBytes}

InitIntBytes == InitWith(<<>>)

NextIntBytes ==
    \/ \E num \in Numbers : IntToBytesAct(num)
    \/ \E bytes \in ByteStrings : BytesToIntAct(bytes)

SpecIntBytes == InitIntBytes /\ [][NextIntBytes]_vars

---------------------------------------------------------------------------
(* verify_signature of Signers with rings of one, two and three keys, on    *)
(* the value of a signed token and its signature: as signed, with a        *)
(* character appended, cut or changed, or a text that is no base64.        *)

K3 == <<107, 51>>

VerifyEndpoints ==
    <<AsSigner(MakeSigner("Signer", <<K1>>, None, NoKwargs)),
      AsSigner(MakeSigner("Signer", <<K1, K2>>, None, NoKwargs)),
      AsSigner(MakeSigner("Signer", <<K3, K1, K2>>, None, NoKwargs)),
      AsSigner(MakeSigner("Signer", <<K3>>, None, NoKwargs))>>

SignatureMutations == {"none", "append_a", "truncate", "flip_last", "junk"}

InitVerify == InitWith(VerifyEndpoints)

NextVerify ==
    \/ \E i \in DOMAIN endpoints, value \in Values : SignAct(i, value)
    \/ \E i \in DOMAIN endpoints, t \in wire, m \in SignatureMutations :
       \E parts \in {RSplit(t, Dot)} :
           VerifySignatureAct(i, parts[1], Forge(m, parts[2], parts[2]))

SpecVerify == InitVerify /\ [][NextVerify]_vars

---------------------------------------------------------------------------
(* The generator of iter_unsigners, advanced one yield at a time, on the    *)
(* Serializers of the fallback specification.                              *)

InitIterUnsigners == InitWith(FallbackEndpoints)

NextIterUnsigners ==
    \/ \E t \in Threads, i \in DOMAIN endpoints, salt \in Salts :
           IterUnsignersBegin(t, i, salt)
    \/ \E t \in Threads : NextUnsigner(t)
    \/ \E t \in Threads : Return(t)

SpecIterUnsigners == InitIterUnsigners /\ [][NextIterUnsigners]_vars

---------------------------------------------------------------------------
(* JSON Web Signature serializers of the HMAC algorithms holding K1, and   *)
(* one of the algorithm "none" in the hands of somebody without K1.  The   *)
(* channel delivers a token as it is, with its signature segment emptied,  *)
(* with its header replaced by {"alg": "none"} over an empty signature, or *)
(* with that header over the signature it had.                             *)

DowngradeEndpoints ==
    <<AsSerializer(JSONWebSignatureSerializer(K1, None, NoKwargs, "HS256")),
      AsSerializer(JSONWebSignatureSerializer(K1, None, NoKwargs, "HS384")),
      AsSerializer(JSONWebSignatureSerializer(K1, None, NoKwargs, "HS512")),
      AsSerializer(JSONWebSignatureSerializer(K2, None, NoKwargs, "none"))>>

DowngradeMutations == {"none", "strip_sig", "alg_none", "alg_changed"}

InitDowngrade == InitWith(DowngradeEndpoints)

NextDowngrade ==
    \/ \E i \in DOMAIN endpoints, obj \in 1..MaxObjects :
           DumpsHeaderAct(i, obj, None, 0)
    \/ \E m \in DowngradeMutations, t \in wire : Deliver(m, t, t)
    \/ \E i \in DOMAIN endpoints : LoadsAct(i, None, <<>>)
    \/ \E i \in DOMAIN endpoints : LoadsHeaderAct(i, None)

SpecDowngrade == InitDowngrade /\ [][NextDowngrade]_vars

---------------------------------------------------------------------------
\* the header a token of a JSON Web Signature serializer carries, read from
\* its bytes: the JSON object of the first segment (0 when there is none)
HeaderIn(self, token) ==
    Bind(JWS_load_payload(self, RSplit(token, Dot)[1]), LAMBDA loaded :
         IF loaded.kind = "ok" THEN loaded.header ELSE 0)

\* the payload signed with the algorithm a header names
SignedAsNamed(self, salt, payload, header) ==
    Legacy_sign(JWS_make_signer([self EXCEPT !.algorithm_name =
                                                JsonTable[header].alg],
                                salt),
                payload)

\* C20  JWS header: the header of every token dumps produced is the caller's
\* fields plus "alg" set to the serializer's algorithm_name, whatever "alg"
\* the caller gave, and the token is the payload signed by the algorithm of
\* that name; loads(return_header=True) returns the object dumped and that
\* header.
C20_JWSHeader ==
    /\ \A r \in signed :
           \E self \in {endpoints[r.by].obj} :
           \E header \in {HeaderIn(self, r.token)} :
               /\ header # 0
               /\ JsonTable[header].dict
               /\ JsonTable[header].alg = self.algorithm_name
               /\ JsonTable[header].typ =
                      (IF r.header_fields = 0 THEN ""
                       ELSE JsonTable[r.header_fields].typ)
               /\ r.token = SignedAsNamed(self, r.salt, r.value, header)
    /\ (res.op = "loads_header" /\ res.out.kind = "ok") =>
           \E r \in signed :
               /\ r.token = res.token
               /\ res.out.obj = r.obj
               /\ res.out.header = HeaderIn(endpoints[r.by].obj, r.token)

\* C20 witness: dumps was given {"alg": "HS384"} on a serializer of HS256,
\* and loads(return_header=True) returned the object with {"alg": "HS256"}
C20_Witness ==
    /\ res.op = "loads_header"
    /\ res.out.kind = "ok"
    /\ \E r \in signed :
           /\ r.token = res.token
           /\ r.header_fields = 6
           /\ endpoints[r.by].obj.algorithm_name = "HS256"
           /\ res.out.obj = r.obj
           /\ res.out.header = 5

\* dumps was given {"typ": "dummy"} on a serializer of HS384, and
\* loads(return_header=True) returned {"alg": "HS384", "typ": "dummy"}
C20_CallerFieldsKept ==
    /\ res.op = "loads_header"
    /\ res.out.kind = "ok"
    /\ \E r \in signed :
           /\ r.token = res.token
           /\ r.header_fields = 7
           /\ endpoints[r.by].obj.algorithm_name = "HS384"
           /\ res.out.obj = r.obj
           /\ res.out.header = 9

\* the result of a call run alone on the object as it was constructed
RunAlone(c) ==
    Bind(ConcurrentEndpoints[c.by].obj, LAMBDA self :
         CASE c.op = "sign" -> Returns(sign(self, c.s))
           [] c.op = "unsign" -> unsign(self, c.s)
           [] c.op = "dumps" -> Returns(Serializer_dumps(self, c.obj, c.salt, EPOCH))
           [] c.op = "loads" ->
                  Serializer_loads(self, c.s, c.salt, EPOCH))

\* C21  Concurrency: with a fixed clock and fallback list, in any
\* interleaving of concurrent sign, unsign, dumps and loads calls on the same
\* Signer or Serializer every call ends with the result it has when run
\* alone, and no call writes the object's configuration.
C21_ConcurrentCalls ==
    /\ endpoints = ConcurrentEndpoints
    /\ \A t \in Threads :
           calls[t].pc = "done" => calls[t].out = RunAlone(calls[t])

\* C21 witness: a loads that fell back to another signer, and made steps
\* while a dumps with another salt on the same serializer was under way,
\* ended with the object it returns when run alone
C21_Witness ==
    \E t \in Threads, u \in Threads :
        /\ calls[t].pc = "done" /\ calls[t].op = "loads"
        /\ calls[t].overlap /\ calls[t].k > 1
        /\ calls[t].out.kind = "ok" /\ calls[t].out.obj = 3
        /\ calls[u].pc = "signer_sign" /\ calls[u].by = calls[t].by
        /\ calls[u].salt = Modified

\* the signers loads of self tries on a token
UnsignersOf(self, salt) ==
    CASE self.cls = "Serializer" ->
             {iter_unsigners(self, salt)[k] :
                  k \in 1..Len(iter_unsigners(self, salt))}
      [] self.cls = "JSONWebSignatureSerializer" -> {JWS_make_signer(self, salt)}
      [] OTHER -> {Legacy_make_signer(self, salt)}

\* whether the signature check of the last loads passed and gave payload
VerifiedPayload(payload) ==
    \E signer \in UnsignersOf(endpoints[res.by].obj, res.salt) :
    \E unsigned \in {CallUnsign(signer, res.token, res.max_age, res.at)} :
        unsigned.kind = "ok" /\ unsigned.value = payload

\* whether a key holder signed payload: it stands in a token dumped, right
\* before a separator
SignedByHolder(payload, r) ==
    /\ Len(payload) < Len(r.token)
    /\ Slice(r.token, 1, Len(payload) + 1) = payload \o Dot

\* loads called load_payload with bytes whose signature had verified only,
\* and decompressed only what a key holder had signed with the marker
PayloadDecodedAfterVerified ==
    res.op = "loads" =>
        /\ res.out.decoded # None => VerifiedPayload(res.out.decoded)
        /\ res.out.inflated =>
               /\ res.out.decoded[1] = 46
               /\ \E r \in signed : SignedByHolder(res.out.decoded, r)

\* C22  Verify before decode: in loads of every serializer variant the
\* signature check comes first: base64 decoding, zlib decompression and
\* codec.loads are invoked only on bytes whose signature has verified, and a
\* body is decompressed only if a key holder signed it with the "." marker.
C22_VerifyBeforeDecode ==
    /\ PayloadDecodedAfterVerified
    /\ res.op = "loads" => ~res.out.peeked

\* C22 as amended: load_payload, and with it the base64 decoding, the zlib
\* decompression and codec.loads of the body, is invoked only on bytes whose
\* signature has verified, and a body is decompressed only if a key holder
\* signed it with the "." marker; the timestamp of a token whose signature
\* failed is base64-decoded all the same, by the timed serializers only and
\* only when the token holds a second separator.
C22_PayloadVerifiedBeforeDecode ==
    /\ PayloadDecodedAfterVerified
    /\ (res.op = "loads" /\ res.out.peeked) =>
           /\ endpoints[res.by].obj.cls
                  \in {"TimedSerializer", "URLSafeTimedSerializer"}
           /\ IsA(res.out.kind, "BadTimeSignature") /\ res.out.decoded = None
           /\ Contains(Dot, RSplit(res.token, Dot)[1])

\* C22 witness: a URL-safe serializer decompressed the body of a token that
\* arrived as sent, and whose payload a key holder had signed with the marker
C22_Witness ==
    /\ Returned("loads")
    /\ res.out.inflated /\ res.out.obj = 11
    /\ res.mutation = "none"
    /\ \E r \in signed : r.value = res.out.decoded /\ r.value[1] = 46

\* the marker was put in front of a token whose payload was not compressed:
\* the signature fails and nothing is decoded
C22_MarkerAddedRejected ==
    /\ res.op = "loads" /\ res.mutation = "add_marker"
    /\ endpoints[res.by].obj.cls = "URLSafeSerializer"
    /\ IsA(res.out.kind, "BadSignature")
    /\ res.out.decoded = None /\ ~res.out.inflated

\* loads_unsafe gave back the object of a token whose signature had failed
C22_UnsafeDecodesUnverified ==
    /\ Returned("loads_unsafe")
    /\ res.mutation = "append_a"
    /\ ~res.out.valid /\ res.out.obj # 0

---------------------------------------------------------------------------
\* the names of the HMAC algorithms of jws_algorithms
HMACNames == {"HS256", "HS384", "HS512"}

\* loads or loads(return_header=True) of a serializer of an HMAC algorithm
\* returned
HMACLoadsReturned ==
    /\ res.op \in {"loads", "loads_header"}
    /\ endpoints[res.by].obj.cls = "JSONWebSignatureSerializer"
    /\ endpoints[res.by].obj.algorithm_name \in HMACNames
    /\ res.out.kind = "ok"

\* C23  No "none" downgrade: when loads of a JSON Web Signature serializer
\* configured with HS256, HS384 or HS512 returns a payload, the signature
\* segment of the token is not empty, the token's header names the
\* serializer's own algorithm, and the token is one that a holder of the
\* serializer's key produced with that algorithm.
C23_NoNoneDowngrade ==
    HMACLoadsReturned =>
        \E self \in {endpoints[res.by].obj} :
            /\ RSplit(res.token, Dot)[2] # <<>>
            /\ JsonTable[HeaderIn(self, res.token)].alg = self.algorithm_name
            /\ \E r \in signed :
                   /\ r.token = res.token
                   /\ endpoints[r.by].obj.secret_keys = self.secret_keys
                   /\ endpoints[r.by].obj.algorithm_name = self.algorithm_name

\* C23 witness: a token whose header was replaced by {"alg": "none"} over an
\* empty signature reached a serializer of an HMAC algorithm, which raised
\* BadSignature
C23_Witness ==
    /\ res.op = "loads"
    /\ res.mutation = "alg_none"
    /\ endpoints[res.by].obj.algorithm_name \in HMACNames
    /\ RSplit(res.token, Dot)[2] = <<>>
    /\ JsonTable[HeaderIn(endpoints[res.by].obj, res.token)].alg = "none"
    /\ IsA(res.out.kind, "BadSignature")

\* the same token is returned by the serializer of the algorithm "none": the
\* forgery is a well-formed token
C23_NoneSerializerAccepts ==
    ~ /\ res.op = "loads"
      /\ res.mutation = "alg_none"
      /\ endpoints[res.by].obj.algorithm_name = "none"
      /\ res.out.kind = "ok"

\* an unmodified token of an HMAC serializer is returned by it
C23_OwnTokenReturned ==
    ~ /\ HMACLoadsReturned
      /\ res.mutation = "none"

---------------------------------------------------------------------------
\* unsign of a TimestampSigner was given a token whose signature is not the
\* one of the bytes before its last separator, and those bytes hold a
\* separator themselves
FailedWithSplittablePayload ==
    /\ res.op = "unsign"
    /\ endpoints[res.by].obj.cls = "TimestampSigner"
    /\ \E self \in {endpoints[res.by].obj} :
           /\ Contains(self.sep, res.token)
           /\ \E recovered \in {RSplit(res.token, self.sep)[1]} :
                  /\ res.token # Legacy_sign(self, recovered)
                  /\ Contains(self.sep, recovered)

\* the BadTimeSignature with the forensic detail of the token in res
ForensicDetail ==
    \E self \in {endpoints[res.by].obj} :
    \E parts \in {RSplit(RSplit(res.token, self.sep)[1], self.sep)} :
    \E ts \in {base64_decode(parts[2])} :
        /\ res.out.kind = "BadTimeSignature"
        /\ res.out.payload = parts[1]
        /\ IF ts.ok
           THEN /\ res.out.date_kind = "int"
                /\ res.out.date_signed = bytes_to_int(ts.data)
           ELSE res.out.date_kind = "none"

\* C24  Forensic detail on a failed timed signature: when the outer
\* signature check of TimestampSigner.unsign fails and the recovered payload
\* still holds a separator, the error is BadTimeSignature with payload the
\* bytes before that payload's last separator and date_signed the decoded
\* timestamp when it can be parsed, unset otherwise.
C24_ForensicDetail == FailedWithSplittablePayload => ForensicDetail

\* the claim on tokens whose signature segment is text (valid UTF-8)
C24_ForensicDetailOfTextSignatures ==
    (/\ FailedWithSplittablePayload
     /\ MessageDecodes(endpoints[res.by].obj, res.token)) => ForensicDetail

\* a failed signature over a payload with a timestamp that parses, and one
\* over a payload whose last segment does not parse, were both reported
C24_TimestampParsedReached ==
    ~ (FailedWithSplittablePayload /\ ForensicDetail
       /\ res.out.date_kind = "int")

C24_TimestampUnparsedReached ==
    ~ (FailedWithSplittablePayload /\ ForensicDetail
       /\ res.out.date_kind = "none")

---------------------------------------------------------------------------
\* unsign of a TimestampSigner was given a token whose signature is the one
\* of the bytes before its last separator
ValidOuterSignature ==
    /\ res.op = "unsign"
    /\ endpoints[res.by].obj.cls = "TimestampSigner"
    /\ \E self \in {endpoints[res.by].obj} :
           /\ Contains(self.sep, res.token)
           /\ res.token = Legacy_sign(self, RSplit(res.token, self.sep)[1])

\* the value under the signature of the token in res
SignedValue == RSplit(res.token, endpoints[res.by].obj.sep)[1]

\* the value under the signature has a last segment that does not decode
MalformedTimestamp ==
    \E sep \in {endpoints[res.by].obj.sep} :
        /\ Contains(sep, SignedValue)
        /\ ~base64_decode(RSplit(SignedValue, sep)[2]).ok

\* C25  Timestamp structure errors with a valid signature: a signed value
\* without a separator raises BadTimeSignature("timestamp missing") with
\* payload the whole signed value; a timestamp segment that does not decode
\* raises BadTimeSignature("Malformed timestamp") with payload the value
\* before the timestamp; both whatever max_age and the clock are, so before
\* SignatureExpired.
C25_TimestampStructureErrors ==
    ValidOuterSignature =>
        \E sep \in {endpoints[res.by].obj.sep} :
            /\ ~Contains(sep, SignedValue) =>
                   /\ res.out.kind = "BadTimeSignature"
                   /\ res.out.msg = "timestamp missing"
                   /\ res.out.payload = SignedValue
            /\ MalformedTimestamp =>
                   /\ res.out.kind = "BadTimeSignature"
                   /\ res.out.msg = "Malformed timestamp"
                   /\ res.out.payload = RSplit(SignedValue, sep)[1]

\* C25 witness: a validly signed value with a malformed timestamp was
\* unsigned with max_age 0 a second after the epoch, when a timestamp of 0
\* would have expired
C25_Witness ==
    /\ ValidOuterSignature
    /\ MalformedTimestamp
    /\ res.max_age = <<0>>
    /\ res.at > EPOCH
    /\ res.out.msg = "Malformed timestamp"

\* the same for a signed value without a separator
C25_MissingReached ==
    ~ /\ ValidOuterSignature
      /\ ~Contains(endpoints[res.by].obj.sep, SignedValue)
      /\ res.max_age = <<0>>
      /\ res.at > EPOCH
      /\ res.out.msg = "timestamp missing"

---------------------------------------------------------------------------
\* the signer the claim puts at place k of iter_unsigners(salt) of self
ExpectedUnsigner(self, salt, k) ==
    LET n       == Len(self.secret_keys)
        salt2   == IF salt = None THEN self.salt ELSE salt
        entry   == self.fallback_signers[((k - 2) \div n) + 1]
        key     == self.secret_keys[((k - 2) % n) + 1]
    IN  IF k = 1
        THEN MakeSigner(self.signer, self.secret_keys, salt2, self.signer_kwargs)
        ELSE CASE entry.shape = "dict" ->
                      MakeSigner(self.signer, <<key>>, salt2, entry.kwargs)
               [] entry.shape = "tuple" ->
                      MakeSigner(entry.signer, <<key>>, salt2, entry.kwargs)
               [] entry.shape = "class" ->
                      MakeSigner(entry.signer, <<key>>, salt2, self.signer_kwargs)

\* C26  iter_unsigners(salt) yields the configured signer with the whole
\* ring first, then for each fallback entry in list order one signer per
\* key, oldest first, each with the requested salt (the serializer's own
\* when None) and the kwargs of its entry's shape; it ends after exactly
\* 1 + |fallback_signers| x |secret_keys| signers.
C26_IterUnsignersOrder ==
    \A t \in Threads :
        calls[t].op = "iter_unsigners" =>
            \E c \in {calls[t]} :
            \E self \in {endpoints[c.by].obj} :
            \E total \in {1 + Len(self.fallback_signers) * Len(self.secret_keys)} :
                /\ c.k <= total
                /\ c.k >= 1 => c.signer = ExpectedUnsigner(self, c.salt, c.k)
                /\ c.pc = "done" => c.k = total

\* C26 witness: the generator of the serializer with two keys and three
\* fallback entries, called with a salt, ended after its seventh signer, the
\* (Signer, {"sep": "|"}) entry on the newest key
C26_Witness ==
    \E t \in Threads :
        /\ calls[t].op = "iter_unsigners"
        /\ calls[t].pc = "done"
        /\ calls[t].salt = Modified
        /\ calls[t].k = 7
        /\ calls[t].signer = MakeSigner("Signer", <<K2>>, Modified,
                                        [NoKwargs EXCEPT !.sep = Bar])

---------------------------------------------------------------------------
\* the keys of the ring of self that verify the decoded signature data for
\* value
KeysVerifying(self, value, data) ==
    {k \in DOMAIN self.secret_keys :
         Algorithm_verify_signature(self.algorithm,
                                    derive_key(self, self.secret_keys[k]),
                                    value, data)}

\* C27  Signer.verify_signature(value, sig) returns True exactly when some
\* key of the ring, derived with the signer's salt and scheme, verifies the
\* decoded signature; when it returns False for a signature that decodes,
\* every key of the ring was tried; a signature that does not decode gives
\* False and no error.
C27_VerifySignature ==
    res.op = "verify_signature" =>
        \E self \in {endpoints[res.by].obj} :
        \E d \in {base64_decode(res.src)} :
            /\ res.out.kind = "ok"
            /\ res.out.valid <=>
                   (d.ok /\ KeysVerifying(self, res.token, d.data) # {})
            /\ (~res.out.valid /\ d.ok) =>
                   res.out.steps = Len(self.secret_keys)
            /\ ~d.ok => ~res.out.valid

\* C27 witness: the signer with three keys returned False for a signature
\* that decodes, after trying its three keys
C27_Witness ==
    /\ res.op = "verify_signature"
    /\ Len(endpoints[res.by].obj.secret_keys) = 3
    /\ base64_decode(res.src).ok
    /\ ~res.out.valid
    /\ res.out.steps = 3

\* True was returned for the signature of the oldest of three keys
C27_OldestKeyVerifies ==
    ~ /\ res.op = "verify_signature"
      /\ res.out.valid
      /\ \E self \in {endpoints[res.by].obj} :
             KeysVerifying(self, res.token, base64_decode(res.src).data) = {1}
             /\ Len(self.secret_keys) = 3

\* False was returned for a signature that does not decode
C27_UndecodableReached ==
    ~ /\ res.op = "verify_signature"
      /\ ~base64_decode(res.src).ok
      /\ ~res.out.valid

---------------------------------------------------------------------------
\* the step is a call of the operation in res, on the object, token, salt
\* and max_age of the call recorded there
SameCallAgain ==
    /\ res'.op = res.op
    /\ res'.by = res.by
    /\ res'.token = res.token
    /\ res'.salt = res.salt
    /\ res'.max_age = res.max_age

\* C28  Expiry is monotone in time: under a clock that never goes back,
\* once unsign of a TimestampSigner or loads of a timed serializer has
\* raised SignatureExpired for a token and a max_age, every later call on
\* that token with that max_age raises SignatureExpired too.
C28_ExpiryMonotone ==
    [][(res.out.kind = "SignatureExpired" /\ SameCallAgain /\ now' >= now) =>
           res'.out.kind = "SignatureExpired"]_vars

\* C28 witness: a call repeated after the clock moved found the token
\* expired again
C28_Witness ==
    /\ res.mutation = "again"
    /\ res.out.kind = "SignatureExpired"
    /\ res.at > EPOCH
    /\ \E r \in signed :
           /\ r.token = res.token
           /\ r.at = EPOCH
           /\ res.max_age = <<-1>>

\* a token that was valid at first was found expired by a later call
C28_ExpiresLater ==
    [][~ (/\ res.out.kind = "ok" /\ SameCallAgain
          /\ res'.out.kind = "SignatureExpired")]_vars

---------------------------------------------------------------------------
\* the Signer with the key, salt, separator, derivation and algorithm of the
\* TimestampSigner self
PlainSignerLike(self) == [self EXCEPT !.cls = "Legacy_Signer"]

\* v + sep + b64url(int_to_bytes(c))
Stamped(self, v, c) == v \o self.sep \o base64_encode(int_to_bytes(c))

\* the token in res was signed by a Signer configured as the TimestampSigner
\* that unsigned it, over a value that ends in the encoding of c seconds
PlainTokenStamped(c) ==
    /\ res.op = "unsign_timestamp"
    /\ \E r \in signed :
           /\ r.token = res.token
           /\ endpoints[r.by].obj = PlainSignerLike(endpoints[res.by].obj)
           /\ Contains(endpoints[r.by].obj.sep, r.value)
           /\ \E parts \in {RSplit(r.value, endpoints[r.by].obj.sep)} :
                  r.value = Stamped(endpoints[r.by].obj, parts[1], c)

\* C29  Plain and timestamp tokens are separated by key and salt only: the
\* token TimestampSigner.sign(v) makes at the clock reading c is, byte for
\* byte, Signer.sign(v + sep + b64url(int_to_bytes(c))) of the Signer with
\* the same key, salt, separator, derivation and algorithm; and
\* TimestampSigner.unsign of such a token of the plain Signer returns v with
\* the signing time c.
C29_PlainTokenAccepted ==
    /\ \A r \in signed :
           endpoints[r.by].obj.cls = "TimestampSigner" =>
               \E self \in {endpoints[r.by].obj} :
                   r.token = Legacy_sign(PlainSignerLike(self),
                                         Stamped(self, r.value, r.at - EPOCH))
    /\ \A c \in Stamps :
           PlainTokenStamped(c) =>
               \E sep \in {endpoints[res.by].obj.sep} :
               \E value \in {RSplit(res.token, sep)[1]} :
                   /\ res.out.kind = "ok"
                   /\ res.out.value = RSplit(value, sep)[1]
                   /\ res.out.date_kind = "datetime"
                   /\ res.out.date_signed = c + EPOCH

\* C29 witness: a token of the plain Signer, made at the epoch over a value
\* that names the second 300, was unsigned by the TimestampSigner, which
\* returned the value and that signing time; no TimestampSigner has signed
C29_Witness ==
    /\ PlainTokenStamped(300)
    /\ res.out.kind = "ok"
    /\ res.out.date_signed = 300 + EPOCH
    /\ \A r \in signed : endpoints[r.by].obj.cls # "TimestampSigner"

\* the same value signed by a Signer of another key or salt is rejected
C29_OtherKeyOrSaltRejected ==
    ~ /\ res.op = "unsign_timestamp"
      /\ IsA(res.out.kind, "BadSignature")
      /\ \E r \in signed :
             /\ r.token = res.token
             /\ r.value \in StampedValues
             /\ endpoints[r.by].obj.cls = "Legacy_Signer"

\* a TimestampSigner signed after the clock moved
C29_TimestampSignerSigned ==
    ~ \E r \in signed :
          endpoints[r.by].obj.cls = "TimestampSigner" /\ r.at > EPOCH

---------------------------------------------------------------------------
\* 256 to the power k
RECURSIVE Pow256(_)
Pow256(k) == IF k = 0 THEN 1 ELSE 256 * Pow256(k - 1)

\* the integer a byte string stands for, most significant byte first: the
\* sum of b[i] * 256^(Len(b) - i) from the i-th byte on
RECURSIVE BigEndianFrom(_, _)
BigEndianFrom(b, i) ==
    IF i > Len(b) THEN 0
    ELSE b[i] * Pow256(Len(b) - i) + BigEndianFrom(b, i + 1)

NoLeadingZero(b) == b = <<>> \/ b[1] # 0

\* C30  Integer encoding: for n >= 0, bytes_to_int(int_to_bytes(n)) = n and
\* int_to_bytes(n) is the minimal big-endian representation of n (bytes of
\* 0..255, no leading zero byte, the empty string for 0); and
\* int_to_bytes(bytes_to_int(b)) = b exactly for the byte strings b without
\* a leading zero byte.
C30_IntegerEncoding ==
    /\ res.op = "int_to_bytes" =>
           \E n \in {res.out.number} : \E b \in {res.out.value} :
               /\ bytes_to_int(b) = n
               /\ \A i \in DOMAIN b : b[i] \in 0..255
               /\ BigEndianFrom(b, 1) = n
               /\ NoLeadingZero(b)
               /\ n = 0 => b = <<>>
    /\ res.op = "bytes_to_int" =>
           \E b \in {res.token} : \E n \in {res.out.number} :
               /\ n = BigEndianFrom(b, 1)
               /\ (int_to_bytes(n) = b) <=> NoLeadingZero(b)

\* C30 witness: int_to_bytes(65536) gave the three bytes 1, 0, 0
C30_Witness ==
    /\ res.op = "int_to_bytes"
    /\ res.out.number = 65536
    /\ res.out.value = <<1, 0, 0>>

\* bytes_to_int of a string with a leading zero byte gave a number that
\* int_to_bytes does not take back to it
C30_LeadingZeroLost ==
    ~ /\ res.op = "bytes_to_int"
      /\ res.token = <<0, 1>>
      /\ res.out.number = 1
      /\ int_to_bytes(res.out.number) = <<1>>

\* int_to_bytes(0) gave the empty string
C30_ZeroIsEmpty ==
    ~ /\ res.op = "int_to_bytes"
      /\ res.out.number = 0
      /\ res.out.value = <<>>

=============================================================================
